---- MODULE Spec2Model ----
(***************************************************************************)
(* Model of the hrscreening screening core: ScreeningCore.evaluate with    *)
(* its evaluator loop, score aggregation, hard gates and decision, and the *)
(* SalaryEvaluator.                                                        *)
(*                                                                         *)
(* Encoding of Python values.                                              *)
(*   - A str is a sequence of characters; a character is a one-letter TLA+ *)
(*     string, or "U+XXXX" for a code point outside ASCII.                 *)
(*   - A value that may be None, or whose type the code tests, is a tagged *)
(*     record [t |-> tag, v |-> payload].                                  *)
(*   - A float is an exact fixed-point integer: scores and weights are in  *)
(*     hundredths, pre_llm_score and thresholds in ten-thousandths,        *)
(*     salaries in yen units with expanded bounds in hundredths of a unit. *)
(***************************************************************************)
EXTENDS Integers, Sequences, FiniteSets, TLC

VARIABLES
    candidate,            \* CandidateProfile passed to evaluate
    job,                  \* JobDescription passed to evaluate
    context,              \* the context argument of evaluate (None or a dict)
    evaluators,           \* ScreeningCore._evaluators
    score_weights,        \* ScreeningCore._score_weights
    thresholds,           \* ScreeningCore._thresholds
    pc,                   \* position inside evaluate: start, loop, done, error
    idx,                  \* 1-based position of the evaluator loop
    evaluation_context,   \* the dict handed to every evaluator
    evaluations,          \* list of normalized EvaluationResult
    aggregated_scores,    \* dict metric -> summed score
    outcome,              \* the returned ScreeningOutcome (None until returned)
    error,                \* the exception raised by evaluate (None if none)
    pipeline,             \* the frame of ScreeningPipeline.run (None outside a run)
    workers               \* the frames of evaluate calls running in parallel

vars == <<candidate, job, context, evaluators, score_weights, thresholds, pc,
          idx, evaluation_context, evaluations, aggregated_scores, outcome,
          error, pipeline, workers>>

-----------------------------------------------------------------------------
(* Bounds of the model.                                                    *)

MaxEvaluators == 2
MaxCandLangs == 2
MaxReqLangs == 1
MaxReqLocs == 1
MaxSalary == 11

-----------------------------------------------------------------------------
(* Python values.                                                          *)

None == [t |-> "None"]
Missing == [t |-> "missing"]
PyInt(n) == [t |-> "int", v |-> n]
PyFloat(n) == [t |-> "float", v |-> n]
PyStr(s) == [t |-> "str", v |-> s]
PyList(s) == [t |-> "list", v |-> s]
PyDict(f) == [t |-> "dict", v |-> f]
PyObj(r) == [t |-> "obj", v |-> r]

EmptyDict == [k \in {} |-> 0]

\* the result of a call: an exception raised or a value returned
Raised(exc) == [raised |-> TRUE, exc |-> exc]
Returned(value) == [raised |-> FALSE, value |-> value]

\* Python truth value of a tagged value.
Truthy(x) ==
    CASE x.t = "None" -> FALSE
      [] x.t = "missing" -> FALSE
      [] x.t = "int" -> x.v # 0
      [] x.t = "float" -> x.v # 0
      [] x.t = "str" -> Len(x.v) > 0
      [] x.t = "list" -> Len(x.v) > 0
      [] x.t = "dict" -> DOMAIN x.v # {}
      [] OTHER -> TRUE

\* dict.get(key) on a payload whose absent keys are recorded as Missing.
DictGet(payload, key) ==
    IF payload[key].t = "missing" THEN None ELSE payload[key]

\* `x or default`
PyOr(x, default) == IF Truthy(x) THEN x ELSE default

\* dict.get(key, 0) on a dict of numbers.
GetOrZero(d, k) == IF k \in DOMAIN d THEN d[k] ELSE 0

RECURSIVE SumOver(_, _)
SumOver(S, f) ==
    IF S = {} THEN 0
    ELSE LET x == CHOOSE y \in S : TRUE
         IN f[x] + SumOver(S \ {x}, f)

SeqsUpTo(n, S) == UNION {[1..m -> S] : m \in 0..n}

-----------------------------------------------------------------------------
(* str.strip() and str.lower().                                            *)

Whitespace == {" ", "\t", "U+3000"}

UpperLetters ==
    <<"A","B","C","D","E","F","G","H","I","J","K","L","M",
      "N","O","P","Q","R","S","T","U","V","W","X","Y","Z">>
LowerLetters ==
    <<"a","b","c","d","e","f","g","h","i","j","k","l","m",
      "n","o","p","q","r","s","t","u","v","w","x","y","z">>

LowerChar(c) ==
    IF \E i \in 1..26 : UpperLetters[i] = c
    THEN LowerLetters[CHOOSE i \in 1..26 : UpperLetters[i] = c]
    ELSE c

lower(s) == [i \in 1..Len(s) |-> LowerChar(s[i])]

RECURSIVE lstrip(_)
lstrip(s) ==
    IF s # <<>> /\ Head(s) \in Whitespace THEN lstrip(Tail(s)) ELSE s

RECURSIVE rstrip(_)
rstrip(s) ==
    IF s # <<>> /\ s[Len(s)] \in Whitespace
    THEN rstrip(SubSeq(s, 1, Len(s) - 1))
    ELSE s

strip(s) == rstrip(lstrip(s))

-----------------------------------------------------------------------------
(* String literals used by the code and by the inputs.                     *)

s_ja == <<"j","a">>
s_jp == <<"j","p">>
s_japanese == <<"j","a","p","a","n","e","s","e">>
s_nihongo_kanji == <<"U+65E5","U+672C","U+8A9E">>
s_nihongo_kana == <<"U+306B","U+307B","U+3093","U+3054">>
s_en == <<"e","n">>
s_english == <<"e","n","g","l","i","s","h">>
s_eigo_kanji == <<"U+82F1","U+8A9E">>
s_eigo_kana == <<"U+3048","U+3044","U+3054">>
s_ok == <<"o","k">>
s_valid == <<"v","a","l","i","d">>
s_yes == <<"y","e","s">>

-----------------------------------------------------------------------------
(* ScreeningCore: class constants.                                         *)

DEFAULT_WEIGHTS ==
    [bm25_prox |-> 45, embed_sim |-> 40, sim_title |-> 10, title_bonus |-> 5]

DEFAULT_THRESHOLDS == [pass |-> 8000, borderline |-> 6500, reject |-> 0]

\* dict in insertion order: <<key, label>>
HARD_GATE_LABELS ==
    << <<"language_ok", "language">>, <<"location_ok", "location">>,
       <<"visa_ok", "visa">>, <<"salary_ok", "salary">> >>

-----------------------------------------------------------------------------
(* ScreeningCore: hard gates.                                              *)

\* the alias table of _normalize_language: <<key, value>>
aliases ==
    { <<s_nihongo_kanji, s_ja>>, <<s_nihongo_kana, s_ja>>,
      <<s_japanese, s_ja>>, <<s_jp, s_ja>>, <<s_ja, s_ja>>,
      <<s_eigo_kanji, s_en>>, <<s_eigo_kana, s_en>>,
      <<s_english, s_en>>, <<s_en, s_en>> }

\* mutant of _normalize_language: lowercased but not stripped
_normalize_language_nostrip(language) ==
    IF language = <<>> THEN <<>>
    ELSE LET normalized == lower(language)
         IN IF \E a \in aliases : a[1] = normalized
            THEN (CHOOSE a \in aliases : a[1] = normalized)[2]
            ELSE normalized

_normalize_language(language) ==
    IF language = <<>> THEN <<>>
    ELSE LET normalized == lower(strip(language))
         IN IF \E a \in aliases : a[1] = normalized
            THEN (CHOOSE a \in aliases : a[1] = normalized)[2]
            ELSE normalized

_language_ok(cand, required_languages) ==
    IF required_languages = <<>> THEN TRUE
    ELSE LET candidate_langs ==
                 { _normalize_language(cand.languages[i].language) :
                       i \in 1..Len(cand.languages) }
             required ==
                 { _normalize_language(required_languages[i]) :
                       i \in 1..Len(required_languages) }
         IN IF candidate_langs = {} THEN FALSE
            ELSE candidate_langs \cap required # {}

_location_ok(cand, required_locations) ==
    IF required_locations = <<>> THEN TRUE
    ELSE IF ~Truthy(cand.location) THEN FALSE
    ELSE LET candidate_location == lower(strip(cand.location.v))
             normalized_required ==
                 { lower(strip(required_locations[i])) :
                       i \in 1..Len(required_locations) }
         IN candidate_location \in normalized_required

\* mutant of _visa_ok: the sentinel values are compared like any other
_visa_ok_no_sentinel(candidate_constraints, required_visa) ==
    IF ~Truthy(required_visa) THEN TRUE
    ELSE IF ~(Truthy(candidate_constraints) /\ Truthy(candidate_constraints.v.visa))
    THEN FALSE
    ELSE lower(strip(candidate_constraints.v.visa.v)) = lower(strip(required_visa.v))

_visa_ok(candidate_constraints, required_visa) ==
    IF ~Truthy(required_visa) THEN TRUE
    ELSE LET has_visa == Truthy(candidate_constraints)
                         /\ Truthy(candidate_constraints.v.visa)
             candidate_visa ==
                 IF has_visa
                 THEN PyStr(lower(strip(candidate_constraints.v.visa.v)))
                 ELSE None
         IN IF candidate_visa.t = "None" THEN FALSE
            ELSE IF candidate_visa.v \in {s_ok, s_valid, s_yes} THEN TRUE
            ELSE candidate_visa.v = lower(strip(required_visa.v))

\* mutant of _salary_ok: a desired bound equal to the job bound fails
_salary_ok_nonstrict(cand, salary_range) ==
    IF salary_range.t = "None" THEN TRUE
    ELSE LET min_required == salary_range.v.min_jpy
             max_required == salary_range.v.max_jpy
             desired_min == cand.desired_salary_min_jpy
             desired_max == cand.desired_salary_max_jpy
         IN IF min_required.t = "None" /\ max_required.t = "None" THEN TRUE
            ELSE IF desired_min.t = "None" /\ desired_max.t = "None" THEN TRUE
            ELSE IF desired_min.t # "None" /\ max_required.t # "None"
                    /\ desired_min.v >= max_required.v THEN FALSE
            ELSE IF desired_max.t # "None" /\ min_required.t # "None"
                    /\ desired_max.v <= min_required.v THEN FALSE
            ELSE TRUE

\* mutant of _salary_ok: only the desired minimum is compared
_salary_ok_above_only(cand, salary_range) ==
    IF salary_range.t = "None" THEN TRUE
    ELSE LET min_required == salary_range.v.min_jpy
             max_required == salary_range.v.max_jpy
             desired_min == cand.desired_salary_min_jpy
             desired_max == cand.desired_salary_max_jpy
         IN IF min_required.t = "None" /\ max_required.t = "None" THEN TRUE
            ELSE IF desired_min.t = "None" /\ desired_max.t = "None" THEN TRUE
            ELSE IF desired_min.t # "None" /\ max_required.t # "None"
                    /\ desired_min.v > max_required.v THEN FALSE
            ELSE TRUE

_salary_ok(cand, salary_range) ==
    IF salary_range.t = "None" THEN TRUE
    ELSE LET min_required == salary_range.v.min_jpy
             max_required == salary_range.v.max_jpy
             desired_min == cand.desired_salary_min_jpy
             desired_max == cand.desired_salary_max_jpy
         IN IF min_required.t = "None" /\ max_required.t = "None" THEN TRUE
            ELSE IF desired_min.t = "None" /\ desired_max.t = "None" THEN TRUE
            ELSE IF desired_min.t # "None" /\ max_required.t # "None"
                    /\ desired_min.v > max_required.v THEN FALSE
            ELSE IF desired_max.t # "None" /\ min_required.t # "None"
                    /\ desired_max.v < min_required.v THEN FALSE
            ELSE TRUE

_evaluate_hard_gates(cand, jd) ==
    LET constraints == jd.constraints
        candidate_constraints == cand.constraints
    IN [language_ok |-> _language_ok(cand, constraints.language),
        location_ok |-> _location_ok(cand, constraints.location),
        visa_ok |-> _visa_ok(candidate_constraints, constraints.visa),
        salary_ok |-> _salary_ok(cand, constraints.salary_range)]

\* the list comprehension of evaluate: labels of the false gates, in the
\* order of the flags dict
RECURSIVE FailedLabels(_, _)
FailedLabels(flags, items) ==
    IF items = <<>> THEN <<>>
    ELSE LET k == Head(items)[1]
             label == Head(items)[2]
         IN (IF ~flags[k] THEN <<label>> ELSE <<>>)
            \o FailedLabels(flags, Tail(items))

\* mutant of hard_failures_of: the flag keys are listed, not their labels
hard_failures_of_keys(flags) ==
    FailedLabels(flags, [i \in 1..Len(HARD_GATE_LABELS) |->
                            <<HARD_GATE_LABELS[i][1], HARD_GATE_LABELS[i][1]>>])

hard_failures_of(flags) == FailedLabels(flags, HARD_GATE_LABELS)

-----------------------------------------------------------------------------
(* ScreeningCore: scoring and decision.                                    *)

_compute_weighted_score(weights, scores) ==
    SumOver(DOMAIN weights,
            [metric \in DOMAIN weights |->
                 GetOrZero(scores, metric) * weights[metric]])

\* mutant of _decide: the score is tested before the hard failures
_decide_score_first(thr, score, hard_failures) ==
    IF score >= thr["pass"] THEN "pass"
    ELSE IF hard_failures # <<>> THEN "reject"
    ELSE IF score >= thr["borderline"] THEN "borderline"
    ELSE "reject"

\* mutant of _decide: the pass threshold is exclusive
_decide_strict(thr, score, hard_failures) ==
    IF hard_failures # <<>> THEN "reject"
    ELSE IF score > thr["pass"] THEN "pass"
    ELSE IF score >= thr["borderline"] THEN "borderline"
    ELSE "reject"

\* mutant of _decide: the borderline threshold is tested before the pass one
_decide_borderline_first(thr, score, hard_failures) ==
    IF hard_failures # <<>> THEN "reject"
    ELSE IF score >= thr["borderline"] THEN "borderline"
    ELSE IF score >= thr["pass"] THEN "pass"
    ELSE "reject"

_decide(thr, score, hard_failures) ==
    IF hard_failures # <<>> THEN "reject"
    ELSE IF score >= thr["pass"] THEN "pass"
    ELSE IF score >= thr["borderline"] THEN "borderline"
    ELSE "reject"

-----------------------------------------------------------------------------
(* float(value) as applied to the score values of an evaluator result.     *)
(* A str is accepted when, stripped, it is a run of decimal digits (the    *)
(* inputs hold no other numeric spelling); None raises TypeError and any   *)
(* other str raises ValueError.                                            *)

PyName(a) == [t |-> "name", v |-> a]

Digits == <<"0","1","2","3","4","5","6","7","8","9">>

IsDigits(s) ==
    s # <<>> /\ \A i \in 1..Len(s) : \E d \in 1..10 : Digits[d] = s[i]

RECURSIVE DigitsValue(_)
DigitsValue(s) ==
    IF s = <<>> THEN 0
    ELSE 10 * DigitsValue(SubSeq(s, 1, Len(s) - 1))
         + (CHOOSE d \in 1..10 : Digits[d] = s[Len(s)]) - 1

float_raises(x) ==
    CASE x.t = "float" -> FALSE
      [] x.t = "int" -> FALSE
      [] x.t = "str" -> ~IsDigits(strip(x.v))
      [] OTHER -> TRUE

float(x) ==
    CASE x.t = "float" -> x.v
      [] x.t = "int" -> 100 * x.v
      [] x.t = "str" -> 100 * DigitsValue(strip(x.v))

-----------------------------------------------------------------------------
(* SalaryEvaluator.                                                        *)

SalaryConfig_tolerance_ratio == 10

PyTuple(a, b) == [t |-> "tuple", v |-> <<a, b>>]

\* mutant of _candidate_range: a reversed range is kept as stated
_candidate_range_noswap(profile) ==
    LET minimum0 == profile.desired_salary_min_jpy
        maximum0 == profile.desired_salary_max_jpy
    IN IF minimum0.t = "None" /\ maximum0.t = "None" THEN None
       ELSE LET minimum1 == IF minimum0.t = "None" THEN maximum0 ELSE minimum0
                maximum1 == IF maximum0.t = "None" THEN minimum1 ELSE maximum0
            IN PyTuple(minimum1, maximum1)

_candidate_range(profile) ==
    LET minimum0 == profile.desired_salary_min_jpy
        maximum0 == profile.desired_salary_max_jpy
    IN IF minimum0.t = "None" /\ maximum0.t = "None" THEN None
       ELSE LET minimum1 == IF minimum0.t = "None" THEN maximum0 ELSE minimum0
                maximum1 == IF maximum0.t = "None" THEN minimum1 ELSE maximum0
            IN IF minimum1.t = "None" \/ maximum1.t = "None" THEN None
               ELSE IF minimum1.v > maximum1.v
                    THEN PyTuple(maximum1, minimum1)
                    ELSE PyTuple(minimum1, maximum1)

_job_range(jd) ==
    IF jd.constraints.salary_range.t = "None" THEN None
    ELSE PyTuple(jd.constraints.salary_range.v.min_jpy,
                 jd.constraints.salary_range.v.max_jpy)

\* int -> float in hundredths, None kept
AsFloat(x) == IF x.t = "None" THEN None ELSE PyFloat(100 * x.v)

\* candidate_range holds ints; job_range holds floats (the expanded bounds)
_ranges_overlap(candidate_range, job_range) ==
    LET cand_min == AsFloat(candidate_range.v[1])
        cand_max == AsFloat(candidate_range.v[2])
        job_min == job_range.v[1]
        job_max == job_range.v[2]
        lower_bound == IF job_min.t # "None" THEN job_min ELSE cand_min
        upper_bound == IF job_max.t # "None" THEN job_max ELSE cand_max
    IN IF lower_bound.t = "None" \/ upper_bound.t = "None" THEN TRUE
       ELSE cand_max.v >= lower_bound.v /\ cand_min.v <= upper_bound.v

_overlap_span(candidate_range, job_range) ==
    LET cand_min == AsFloat(candidate_range.v[1])
        cand_max == AsFloat(candidate_range.v[2])
        job_min == job_range.v[1]
        job_max == job_range.v[2]
    IN IF cand_min.t = "None" \/ cand_max.t = "None" THEN None
       ELSE LET a == PyOr(job_min, cand_min).v
                b == PyOr(job_max, cand_max).v
                low == IF cand_min.v >= a THEN cand_min.v ELSE a
                high == IF cand_max.v <= b THEN cand_max.v ELSE b
            IN IF high < low THEN None ELSE PyFloat(high - low)

_gap_amount(candidate_range, job_range) ==
    IF candidate_range.t = "None" \/ job_range.t = "None" THEN None
    ELSE LET cand_min == candidate_range.v[1]
             cand_max == candidate_range.v[2]
             job_min == job_range.v[1]
             job_max == job_range.v[2]
         IN IF cand_min.t = "None" \/ cand_max.t = "None"
               \/ job_min.t = "None" \/ job_max.t = "None" THEN None
            ELSE IF cand_max.v < job_min.v THEN PyInt(job_min.v - cand_max.v)
            ELSE IF cand_min.v > job_max.v THEN PyInt(cand_min.v - job_max.v)
            ELSE PyInt(0)

_build_response(passes, desired_range, job_range, expanded_job_range, overlap_span, message, status, gap, tolerance_ratio, pass_score) ==
    [method |-> PyName("salary"),
     scores |-> PyDict(
        [salary_pass |->
             IF pass_score.t # "None" THEN pass_score
             ELSE IF passes THEN PyFloat(100) ELSE PyFloat(0),
         salary_overlap_span |-> PyOr(overlap_span, PyFloat(0))]),
     metadata |-> PyDict(
        [desired_range |-> desired_range,
         job_range |-> job_range,
         expanded_job_range |-> expanded_job_range,
         overlap_span |-> overlap_span,
         tolerance_ratio |-> tolerance_ratio,
         message |-> message,
         status |-> status,
         gap_amount |-> gap])]

\* overrides = (context.get("evaluation_overrides") or {}).get("salary", {})
\* tolerance_ratio = overrides.get("tolerance_ratio", config.tolerance_ratio)
salary_tolerance_ratio(config, ctx) ==
    LET eo == PyOr(DictGet(ctx, "evaluation_overrides"), PyDict([salary |-> Missing]))
        overrides == IF eo.v.salary.t = "missing"
                     THEN PyDict([tolerance_ratio |-> Missing])
                     ELSE eo.v.salary
    IN IF overrides.v.tolerance_ratio.t = "missing"
       THEN PyFloat(config.tolerance_ratio)
       ELSE overrides.v.tolerance_ratio

SalaryEvaluator_evaluate(config, cand, ctx) ==
    LET profile == cand
        jd == ctx.job
        tolerance_ratio == salary_tolerance_ratio(config, ctx)
        desired_range == _candidate_range(profile)
        job_range == _job_range(jd)
    IN IF desired_range.t = "None" \/ job_range.t = "None"
       THEN _build_response(TRUE, desired_range, job_range, None, None,
                            PyName("insufficient_data"),
                            PyName("insufficient_data"), None,
                            tolerance_ratio, PyFloat(50))
       ELSE LET expanded_job_min ==
                    IF job_range.v[1].t # "None"
                    THEN PyFloat(job_range.v[1].v * (100 - tolerance_ratio.v))
                    ELSE None
                expanded_job_max ==
                    IF job_range.v[2].t # "None"
                    THEN PyFloat(job_range.v[2].v * (100 + tolerance_ratio.v))
                    ELSE None
                expanded == PyTuple(expanded_job_min, expanded_job_max)
                passes == _ranges_overlap(desired_range, expanded)
                overlap_span == _overlap_span(desired_range, expanded)
                gap == _gap_amount(desired_range, job_range)
                status == IF passes THEN PyName("within_tolerance")
                          ELSE PyName("out_of_range")
            IN _build_response(passes, desired_range, job_range, expanded,
                               overlap_span, None, status, gap,
                               tolerance_ratio, None)

-----------------------------------------------------------------------------
(* pendulum as used by the TenureEvaluator.                                 *)
(* A DateTime is a tagged triple <<year, month, day>> (midnight UTC).       *)
(* pendulum.parse is modelled on ISO calendar dates YYYY-MM-DD; every other *)
(* string of the inputs makes it raise ParserError.                         *)

DateTime(y, m, d) == [t |-> "datetime", v |-> <<y, m, d>>]

\* int(text): the inputs hold unsigned decimal spellings only
int_raises(s) == ~IsDigits(strip(s))

int(s) == DigitsValue(strip(s))

IsLeap(y) == (y % 4 = 0 /\ y % 100 # 0) \/ y % 400 = 0

DaysInMonth(y, m) ==
    IF m = 2 THEN (IF IsLeap(y) THEN 29 ELSE 28)
    ELSE IF m \in {4, 6, 9, 11} THEN 30 ELSE 31

\* pendulum.datetime(y, m, d) raises ValueError outside the calendar
datetime_raises(y, m, d) ==
    ~(y \in 1..9999 /\ m \in 1..12 /\ d \in 1..DaysInMonth(y, m))

\* pendulum.parse(text): Raised on ParserError
pendulum_parse(s) ==
    IF /\ Len(s) = 10 /\ s[5] = "-" /\ s[8] = "-"
       /\ IsDigits(SubSeq(s, 1, 4)) /\ IsDigits(SubSeq(s, 6, 7))
       /\ IsDigits(SubSeq(s, 9, 10))
       /\ ~datetime_raises(DigitsValue(SubSeq(s, 1, 4)),
                           DigitsValue(SubSeq(s, 6, 7)),
                           DigitsValue(SubSeq(s, 9, 10)))
    THEN Returned(DateTime(DigitsValue(SubSeq(s, 1, 4)),
                           DigitsValue(SubSeq(s, 6, 7)),
                           DigitsValue(SubSeq(s, 9, 10))))
    ELSE Raised("ParserError")

\* a < b on DateTime values
DateBefore(a, b) ==
    \/ a.v[1] < b.v[1]
    \/ a.v[1] = b.v[1] /\ a.v[2] < b.v[2]
    \/ a.v[1] = b.v[1] /\ a.v[2] = b.v[2] /\ a.v[3] < b.v[3]

\* later.diff(earlier).in_months(): whole months, for earlier <= later
in_months(later, earlier) ==
    12 * (later.v[1] - earlier.v[1]) + (later.v[2] - earlier.v[2])
    - (IF later.v[3] < earlier.v[3] THEN 1 ELSE 0)

-----------------------------------------------------------------------------
(* TenureEvaluator. Thresholds are whole months; an average is kept as the  *)
(* exact fraction num/den and compared by cross-multiplication.             *)

TenureConfig_average_threshold_months == 18
TenureConfig_recent_short_threshold_months == 12
TenureConfig_contract_average_threshold_months == 12
TenureConfig_recent_window == 3

s_contract == <<"c","o","n","t","r","a","c","t">>
s_freelance == <<"f","r","e","e","l","a","n","c","e">>
s_gyomu_itaku == <<"U+696D","U+52D9","U+59D4","U+8A17">>

TenureConfig_contract_types == <<s_contract, s_freelance, s_gyomu_itaku>>

TenureConfig(recent_window) ==
    [average_threshold_months |-> TenureConfig_average_threshold_months,
     recent_short_threshold_months |-> TenureConfig_recent_short_threshold_months,
     contract_average_threshold_months |->
         TenureConfig_contract_average_threshold_months,
     recent_window |-> recent_window,
     contract_types |-> TenureConfig_contract_types]

\* the outcome of pendulum.parse, or the default when it raises
ParsedOr(parsed, default) == IF parsed.raised THEN default ELSE parsed.value

\* datetime(year, month, 1), or the default when int() or datetime() raises
YearMonthOr(year, month, default) ==
    IF int_raises(year) \/ int_raises(month) THEN default
    ELSE IF datetime_raises(int(year), int(month), 1) THEN default
    ELSE DateTime(int(year), int(month), 1)

_parse_date(value, default) ==
    IF ~Truthy(value) THEN default
    ELSE IF Len(value.v) = 7 /\ value.v[5] = "-"
    THEN YearMonthOr(SubSeq(value.v, 1, 4), SubSeq(value.v, 6, 7), default)
    ELSE ParsedOr(pendulum_parse(value.v), default)

\* mutant of _months_for_experience: an end before the start is measured too
MonthsBetweenAbs(start_date, end_date) ==
    IF start_date.t = "None" THEN None
    ELSE IF DateBefore(end_date, start_date)
    THEN PyInt(in_months(start_date, end_date))
    ELSE PyInt(in_months(end_date, start_date))

_months_for_experience_abs(experience, as_of) ==
    MonthsBetweenAbs(_parse_date(experience.start, None),
                     _parse_date(experience.end, as_of))

\* None without a start or with an end before the start
MonthsBetween(start_date, end_date) ==
    IF start_date.t = "None" THEN None
    ELSE IF DateBefore(end_date, start_date) THEN None
    ELSE PyInt(in_months(end_date, start_date))

_months_for_experience(experience, as_of) ==
    MonthsBetween(_parse_date(experience.start, None),
                  _parse_date(experience.end, as_of))

\* mutant of _is_contract: the employment type is compared as written
_is_contract_exact(config, employment_type) ==
    IF employment_type.t = "None" THEN FALSE
    ELSE \E i \in 1..Len(config.contract_types) :
             config.contract_types[i] = employment_type.v

_is_contract(config, employment_type) ==
    IF employment_type.t = "None" THEN FALSE
    ELSE LET normalized == lower(strip(employment_type.v))
         IN \E i \in 1..Len(config.contract_types) :
                lower(config.contract_types[i]) = normalized

\* list.sort(key=end_date, reverse=True): stable, latest end first
RECURSIVE InsertByEndDesc(_, _)
InsertByEndDesc(sorted, item) ==
    IF sorted = <<>> THEN <<item>>
    ELSE IF DateBefore(Head(sorted).end_date, item.end_date)
    THEN <<item>> \o sorted
    ELSE <<Head(sorted)>> \o InsertByEndDesc(Tail(sorted), item)

RECURSIVE SortByEndDesc(_)
SortByEndDesc(items) ==
    IF items = <<>> THEN <<>>
    ELSE InsertByEndDesc(SortByEndDesc(SubSeq(items, 1, Len(items) - 1)),
                         items[Len(items)])

\* the entry appended for an experience, none when months is None
NormalizedEntry(config, experience, months, as_of) ==
    IF months.t = "None" THEN <<>>
    ELSE <<[company |-> experience.company,
            title |-> experience.title,
            months |-> months.v,
            employment_type |-> experience.employment_type,
            end_date |-> _parse_date(experience.end, as_of),
            is_contract |-> _is_contract(config, experience.employment_type)]>>

RECURSIVE NormalizeExperiences(_, _, _)
NormalizeExperiences(config, experiences, as_of) ==
    IF experiences = <<>> THEN <<>>
    ELSE NormalizedEntry(config, Head(experiences),
                         _months_for_experience(Head(experiences), as_of), as_of)
         \o NormalizeExperiences(config, Tail(experiences), as_of)

_compute_per_experience(config, experiences, as_of) ==
    SortByEndDesc(NormalizeExperiences(config, experiences, as_of))

\* mutant of _count_recent_short: every kept experience is counted
_count_recent_short_all(config, experiences) ==
    Cardinality({i \in 1..Len(experiences) :
                     experiences[i].months < config.recent_short_threshold_months})

_count_recent_short(config, experiences) ==
    LET window == SubSeq(experiences, 1,
                         IF Len(experiences) < config.recent_window
                         THEN Len(experiences) ELSE config.recent_window)
    IN Cardinality({i \in 1..Len(window) :
                        window[i].months < config.recent_short_threshold_months})

RECURSIVE SumMonths(_)
SumMonths(experiences) ==
    IF experiences = <<>> THEN 0
    ELSE Head(experiences).months + SumMonths(Tail(experiences))

\* sum(durations) / len(durations) as an exact fraction; 0.0 when empty
_average_months(experiences) ==
    IF experiences = <<>> THEN [num |-> 0, den |-> 1]
    ELSE [num |-> SumMonths(experiences), den |-> Len(experiences)]

_is_contract_profile(experiences) ==
    IF experiences = <<>> THEN FALSE
    ELSE Cardinality({i \in 1..Len(experiences) : experiences[i].is_contract})
             = Len(experiences)

\* the default clock is the injected now_provider
_resolve_as_of(now_provider, ctx) ==
    LET as_of == DictGet(ctx, "as_of")
        default_now == now_provider
    IN IF as_of.t = "None" THEN default_now
       ELSE IF as_of.t = "datetime" THEN as_of
       ELSE _parse_date(as_of, default_now)

SelectContract(experiences) ==
    SelectSeq(experiences, LAMBDA exp : exp.is_contract)

\* a fraction as a float of the score map (hundredths, truncated)
FractionAsFloat(q) == PyFloat((100 * q.num) \div q.den)

\* the payload of evaluate, from the values evaluate has computed
TenurePayload(config, per_experience, average_months, recent_short_count, is_contract_profile, contract_avg_months) ==
    LET is_job_hopper ==
            /\ per_experience # <<>>
            /\ average_months.num
                   < config.average_threshold_months * average_months.den
            /\ recent_short_count >= 2
        passes_contract_rule ==
            /\ is_contract_profile
            /\ contract_avg_months.num
                   >= config.contract_average_threshold_months
                          * contract_avg_months.den
        passes == ~is_job_hopper \/ passes_contract_rule
    IN [method |-> PyName("tenure"),
        scores |-> PyDict(
            [tenure_pass |-> IF passes THEN PyFloat(100) ELSE PyFloat(0),
             tenure_avg_months |-> FractionAsFloat(average_months)]),
        metadata |-> PyDict(
            [average_months |-> average_months,
             per_experience |-> per_experience,
             recent_short_tenures |-> recent_short_count,
             is_job_hopper |-> is_job_hopper,
             is_contract_profile |-> is_contract_profile,
             contract_average_months |-> contract_avg_months,
             passes_contract_rule |-> passes_contract_rule])]

\* evaluate once per_experience is known
TenureOf(config, per_experience) ==
    TenurePayload(config, per_experience,
                  _average_months(per_experience),
                  _count_recent_short(config, per_experience),
                  _is_contract_profile(per_experience),
                  _average_months(SelectContract(per_experience)))

TenureEvaluator_evaluate(self, cand, ctx) ==
    TenureOf(self.config,
             _compute_per_experience(self.config, cand.experiences,
                                     _resolve_as_of(self.now_provider, ctx)))

-----------------------------------------------------------------------------
(* rapidfuzz.fuzz.token_set_ratio, as called without a processor. The ratio *)
(* is 100 * (1 - dist / lensum) with the Indel distance                     *)
(* dist = len(a) + len(b) - 2 * LCS(a, b); it is kept as the exact fraction *)
(* num/den of ratio / 100 and compared with a cutoff without being rounded. *)

\* the characters of the inputs in code point order
CodePoints ==
    <<" ", "-">> \o Digits \o LowerLetters
    \o <<"U+65E5", "U+672C", "U+73FE", "U+8A9E">>

ord(c) == CHOOSE i \in 1..Len(CodePoints) : CodePoints[i] = c

\* a < b on str
RECURSIVE StrLess(_, _)
StrLess(a, b) ==
    IF b = <<>> THEN FALSE
    ELSE IF a = <<>> THEN TRUE
    ELSE IF Head(a) = Head(b) THEN StrLess(Tail(a), Tail(b))
    ELSE ord(Head(a)) < ord(Head(b))

\* str.split(): the maximal runs without whitespace
RECURSIVE SplitFrom(_, _, _)
SplitFrom(s, i, current) ==
    IF i > Len(s)
    THEN (IF current = <<>> THEN <<>> ELSE <<current>>)
    ELSE IF s[i] \in Whitespace
    THEN (IF current = <<>> THEN <<>> ELSE <<current>>)
         \o SplitFrom(s, i + 1, <<>>)
    ELSE SplitFrom(s, i + 1, Append(current, s[i]))

split(s) == SplitFrom(s, 1, <<>>)

\* " ".join(sorted(tokens)) for a set of tokens
RECURSIVE JoinSorted(_)
JoinSorted(tokens) ==
    IF tokens = {} THEN <<>>
    ELSE LET first == CHOOSE x \in tokens : \A y \in tokens \ {x} : StrLess(x, y)
             rest == JoinSorted(tokens \ {first})
         IN IF rest = <<>> THEN first ELSE first \o <<" ">> \o rest

Max2(a, b) == IF a > b THEN a ELSE b

\* one row of the longest-common-subsequence table
RECURSIVE LcsRow(_, _, _, _)
LcsRow(c, b, prev, cur) ==
    IF Len(cur) = Len(b) + 1 THEN cur
    ELSE LET j == Len(cur)
         IN LcsRow(c, b, prev,
                   Append(cur, IF c = b[j] THEN prev[j] + 1
                               ELSE Max2(prev[j + 1], cur[j])))

RECURSIVE LcsFrom(_, _, _, _)
LcsFrom(a, b, i, prev) ==
    IF i > Len(a) THEN prev[Len(b) + 1]
    ELSE LcsFrom(a, b, i + 1, LcsRow(a[i], b, prev, <<0>>))

LCS(a, b) == LcsFrom(a, b, 1, [j \in 1..(Len(b) + 1) |-> 0])

indel_distance(a, b) == Len(a) + Len(b) - 2 * LCS(a, b)

FractionMax(p, q) == IF p.num * q.den >= q.num * p.den THEN p ELSE q

\* 1 - dist / lensum (1 when lensum is 0)
NormalizedSimilarity(dist, lensum) ==
    IF lensum = 0 THEN [num |-> 1, den |-> 1]
    ELSE [num |-> lensum - dist, den |-> lensum]

\* the ratio from the joined intersection (its length) and the two joined
\* differences: the best of diff_ab against diff_ba, sect against sect + ab
\* and sect against sect + ba
JoinedRatio(sect_len, diff_ab_joined, diff_ba_joined) ==
    LET ab_len == Len(diff_ab_joined)
        ba_len == Len(diff_ba_joined)
        sep == IF sect_len # 0 THEN 1 ELSE 0
        sect_ab_len == sect_len + sep + ab_len
        sect_ba_len == sect_len + sep + ba_len
    IN IF sect_len # 0 /\ (ab_len = 0 \/ ba_len = 0)
       THEN [num |-> 1, den |-> 1]
       ELSE FractionMax(
                NormalizedSimilarity(
                    indel_distance(diff_ab_joined, diff_ba_joined),
                    sect_ab_len + sect_ba_len),
                IF sect_len = 0 THEN [num |-> 0, den |-> 1]
                ELSE FractionMax(
                         NormalizedSimilarity(sep + ab_len, sect_len + sect_ab_len),
                         NormalizedSimilarity(sep + ba_len, sect_len + sect_ba_len)))

TokenSetRatioOf(tokens_a, tokens_b) ==
    IF tokens_a = {} \/ tokens_b = {} THEN [num |-> 0, den |-> 1]
    ELSE JoinedRatio(Len(JoinSorted(tokens_a \cap tokens_b)),
                     JoinSorted(tokens_a \ tokens_b),
                     JoinSorted(tokens_b \ tokens_a))

TokenSet(tokens) == {tokens[i] : i \in 1..Len(tokens)}

\* fuzz.token_set_ratio(s1, s2) / 100 as an exact fraction
token_set_ratio(s1, s2) == TokenSetRatioOf(TokenSet(split(s1)), TokenSet(split(s2)))

FractionAtLeast(q, cutoff) == 100 * q.num >= cutoff * q.den

\* fuzz.token_set_ratio(s1, s2) >= cutoff
token_set_ratio_ge(s1, s2, cutoff) == FractionAtLeast(token_set_ratio(s1, s2), cutoff)

-----------------------------------------------------------------------------
(* JDMatcher. A coverage and the weighted score are kept as exact fractions *)
(* num/den; the score map holds them in hundredths, truncated.              *)

JDMatcherConfig_min_similarity == 60

\* default_weights of evaluate, in hundredths
default_weights == [must |-> 100, nice |-> 75, nice_to_have |-> 50]

\* a jd_keywords mapping: of a context, or of evaluation_overrides
JDKeywords(must, nice, nice_to_have, weights, title_bonus) ==
    PyDict([must |-> must, nice |-> nice, nice_to_have |-> nice_to_have,
            weights |-> weights, title_bonus |-> title_bonus])

NoJDKeywords == JDKeywords(Missing, Missing, Missing, Missing, Missing)

\* overrides = (context.get("evaluation_overrides") or {}).get("jd_keywords", {})
jd_overrides(ctx) ==
    LET eo == PyOr(DictGet(ctx, "evaluation_overrides"),
                   PyDict([jd_keywords |-> Missing]))
    IN IF eo.v.jd_keywords.t = "missing" THEN NoJDKeywords ELSE eo.v.jd_keywords

\* [kw.strip() for kw in values if kw]
RECURSIVE StripKept(_)
StripKept(values) ==
    IF values = <<>> THEN <<>>
    ELSE (IF Head(values) # <<>> THEN <<strip(Head(values))>> ELSE <<>>)
         \o StripKept(Tail(values))

_extract_keywords(ctx, jd, overrides) ==
    LET context_keywords == PyOr(DictGet(ctx, "jd_keywords"), NoJDKeywords)
        given(g) == DictGet(overrides.v, g)
        must == IF given("must").t # "None" THEN given("must")
                ELSE PyOr(PyOr(DictGet(context_keywords.v, "must"),
                               PyList(jd.key_phrases)), PyList(<<>>))
        nice == IF given("nice").t # "None" THEN given("nice")
                ELSE PyOr(PyOr(DictGet(context_keywords.v, "nice"),
                               PyList(jd.role_titles)), PyList(<<>>))
        nice_to_have ==
                IF given("nice_to_have").t # "None" THEN given("nice_to_have")
                ELSE PyOr(DictGet(context_keywords.v, "nice_to_have"),
                          PyList(<<>>))
    IN [must |-> StripKept(must.v), nice |-> StripKept(nice.v),
        nice_to_have |-> StripKept(nice_to_have.v)]

RECURSIVE ExperienceTexts(_)
ExperienceTexts(experiences) ==
    IF experiences = <<>> THEN <<>>
    ELSE LET exp == Head(experiences)
         IN (IF exp.title # <<>> THEN <<exp.title>> ELSE <<>>)
            \o (IF exp.summary # <<>> THEN <<exp.summary>> ELSE <<>>)
            \o exp.bullets
            \o ExperienceTexts(Tail(experiences))

_build_corpus(profile) ==
    LET corpus ==
            profile.skills
            \o [i \in 1..Len(profile.languages) |-> profile.languages[i].language]
            \o ExperienceTexts(profile.experiences)
            \o (IF Truthy(profile.notes) THEN <<profile.notes.v>> ELSE <<>>)
        kept == SelectSeq(corpus, LAMBDA text : text # <<>>)
    IN [i \in 1..Len(kept) |-> lower(kept[i])]

\* keyword_lower in text
Contains(text, keyword) ==
    \E i \in 1..(Len(text) - Len(keyword) + 1) :
        SubSeq(text, i, i + Len(keyword) - 1) = keyword

KeywordMatches(config, corpus, keyword) ==
    \E i \in 1..Len(corpus) :
        \/ Contains(corpus[i], lower(keyword))
        \/ token_set_ratio_ge(lower(keyword), corpus[i], config.min_similarity)

_match_keywords(config, corpus, keywords) ==
    SelectSeq(keywords, LAMBDA keyword : KeywordMatches(config, corpus, keyword))

_coverage_ratio(keywords, hits) ==
    IF Len(keywords) = 0 THEN [num |-> 1, den |-> 1]
    ELSE [num |-> Cardinality({hits[i] : i \in 1..Len(hits)}),
          den |-> Len(keywords)]

\* float(override_weights.get(category, default_weights.get(category, 0.0)))
jd_weight(override_weights, category) ==
    IF override_weights[category].t = "missing" THEN default_weights[category]
    ELSE override_weights[category].v

NoWeights == PyDict([must |-> Missing, nice |-> Missing, nice_to_have |-> Missing])

\* mutant of JDScored: empty groups are scored as well, with coverage 1.0
JDScored_all(keyword_groups, weight) ==
    {g \in DOMAIN keyword_groups : weight[g] > 0}

\* mutant of JDScored: only the must group decides the score
JDScored_must(keyword_groups, weight) ==
    {g \in {"must"} : keyword_groups[g] # <<>> /\ weight[g] > 0}

\* the groups the loop of evaluate adds to weighted_sum and total_weight
JDScored(keyword_groups, weight) ==
    {g \in DOMAIN keyword_groups : keyword_groups[g] # <<>> /\ weight[g] > 0}

\* weighted_sum / total_weight (0.0 without weight), clipped to [0, 1]
jd_score(coverage, weight, scored) ==
    LET product == coverage["must"].den * coverage["nice"].den
                   * coverage["nice_to_have"].den
        total_weight == SumOver(scored, [g \in scored |-> weight[g]])
        weighted_sum ==
            SumOver(scored, [g \in scored |->
                weight[g] * coverage[g].num * (product \div coverage[g].den)])
        num == IF total_weight > 0 THEN weighted_sum ELSE 0
        den == IF total_weight > 0 THEN product * total_weight ELSE 1
    IN IF num < 0 THEN [num |-> 0, den |-> 1]
       ELSE IF num > den THEN [num |-> 1, den |-> 1]
       ELSE [num |-> num, den |-> den]

\* the payload of evaluate, from the values evaluate has computed
JDPayload(config, overrides, keyword_groups, corpus_size, hits, coverage, weight) ==
    LET score == jd_score(coverage, weight, JDScored(keyword_groups, weight))
        listed(g) == keyword_groups[g] # <<>>
        has_bonus_hit == \E g \in {"nice", "nice_to_have"} : hits[g] # <<>>
        title_bonus ==
            IF ~has_bonus_hit THEN PyFloat(0)
            ELSE IF overrides.v.title_bonus.t = "missing" THEN PyFloat(10)
            ELSE overrides.v.title_bonus
        zero == [num |-> 0, den |-> 1]
        sim_title ==
            FractionMax(IF listed("nice") THEN coverage["nice"] ELSE zero,
                        IF listed("nice_to_have") THEN coverage["nice_to_have"]
                        ELSE zero)
    IN [method |-> PyName("jd_rule"),
        scores |-> PyDict(
            [jd_must_coverage |-> FractionAsFloat(coverage["must"]),
             jd_nice_coverage |-> FractionAsFloat(coverage["nice"]),
             jd_pass |-> IF score.num > 0 THEN PyFloat(100) ELSE PyFloat(0),
             embed_sim |-> FractionAsFloat(score),
             bm25_prox |-> FractionAsFloat(score),
             sim_title |-> FractionAsFloat(sim_title),
             title_bonus |-> title_bonus]),
        metadata |-> PyDict(
            [keywords |-> keyword_groups,
             hits |-> [g \in DOMAIN keyword_groups |->
                          IF listed(g) THEN PyList(hits[g]) ELSE Missing],
             coverage |-> [g \in DOMAIN keyword_groups |->
                              IF listed(g) THEN coverage[g] ELSE Missing],
             corpus_size |-> corpus_size,
             min_similarity |-> config.min_similarity,
             weights |-> weight,
             title_bonus |-> title_bonus])]

\* evaluate once the matched keywords of each group are known
JDWithHits(config, overrides, keyword_groups, corpus_size, hits, weight) ==
    JDPayload(config, overrides, keyword_groups, corpus_size, hits,
              [g \in DOMAIN keyword_groups |->
                  _coverage_ratio(keyword_groups[g], hits[g])],
              weight)

\* override_weights = overrides.get("weights", {}) or {}
jd_override_weights(overrides) ==
    IF overrides.v.weights.t = "missing" THEN NoWeights
    ELSE PyOr(overrides.v.weights, NoWeights)

\* evaluate once the keyword groups and the corpus are known
JDWithKeywords(config, overrides, keyword_groups, searchable_corpus) ==
    JDWithHits(config, overrides, keyword_groups, Len(searchable_corpus),
               [g \in DOMAIN keyword_groups |->
                   _match_keywords(config, searchable_corpus, keyword_groups[g])],
               [g \in DOMAIN keyword_groups |->
                   jd_weight(jd_override_weights(overrides).v, g)])

\* evaluate once the overrides are known
JDWithOverrides(config, cand, ctx, overrides) ==
    JDWithKeywords(config, overrides,
                   _extract_keywords(ctx, ctx.job, overrides),
                   _build_corpus(cand))

JDMatcher_evaluate(self, cand, ctx) ==
    JDWithOverrides(self.config, cand, ctx, jd_overrides(ctx))

-----------------------------------------------------------------------------
(* BM25ProximityEvaluator. A bm25 value is kept in ten-thousandths, computed *)
(* from a table of the idf logarithms rounded to four decimals; a proximity *)
(* bonus is kept as an exact fraction num/den; weights and the parameters   *)
(* k1, b and alpha_proximity are in hundredths. The score map holds         *)
(* hundredths, truncated.                                                   *)

BM25ProximityConfig_k1 == 120
BM25ProximityConfig_b == 75
BM25ProximityConfig_alpha_proximity == 20
BM25ProximityConfig_window == 8

section_weights == [bullets |-> 100, summary |-> 60, title |-> 80, skills |-> 50]

\* the default synonyms: no token has one
NoSynonyms == [token \in {} |-> <<>>]

BM25ProximityConfig(window, synonyms) ==
    [k1 |-> BM25ProximityConfig_k1, b |-> BM25ProximityConfig_b,
     alpha_proximity |-> BM25ProximityConfig_alpha_proximity,
     window |-> window, section_weights |-> section_weights,
     synonyms |-> synonyms]

\* code points of the characters outside ASCII that occur in the inputs
UnicodeOf ==
    [c \in {"U+3000", "U+30B5", "U+30D0", "U+30FC", "U+65E5", "U+672C", "U+8A9E"} |->
        CASE c = "U+3000" -> 12288
          [] c = "U+30B5" -> 12469
          [] c = "U+30D0" -> 12496
          [] c = "U+30FC" -> 12540
          [] c = "U+65E5" -> 26085
          [] c = "U+672C" -> 26412
          [] c = "U+8A9E" -> 35486]

AlphaNumeric == UpperLetters \o LowerLetters \o Digits

\* the alternative of _TOKEN_PATTERN that matches the character:
\* [A-Za-z0-9] or [U+3041-U+3093, U+30A1-U+30F3, U+4E00-U+9FA5]
CharClass(c) ==
    IF \E i \in 1..Len(AlphaNumeric) : AlphaNumeric[i] = c
    THEN "latin"
    ELSE IF /\ c \in DOMAIN UnicodeOf
            /\ \/ UnicodeOf[c] \in 12353..12435
               \/ UnicodeOf[c] \in 12449..12531
               \/ UnicodeOf[c] \in 19968..40869
    THEN "japanese"
    ELSE "none"

\* _TOKEN_PATTERN.findall(text): the maximal runs of one class
RECURSIVE findall(_, _, _)
findall(text, i, current) ==
    LET flushed == IF current = <<>> THEN <<>> ELSE <<current>>
    IN IF i > Len(text) THEN flushed
       ELSE IF CharClass(text[i]) = "none"
       THEN flushed \o findall(text, i + 1, <<>>)
       ELSE IF current = <<>> \/ CharClass(text[i]) = CharClass(current[1])
       THEN findall(text, i + 1, Append(current, text[i]))
       ELSE flushed \o findall(text, i + 1, <<text[i]>>)

s_infrastructureascode ==
    <<"i","n","f","r","a","s","t","r","u","c","t","u","r","e","a","s","c","o","d","e">>

s_amazonwebservices ==
    <<"a","m","a","z","o","n","w","e","b","s","e","r","v","i","c","e","s">>

canonical(token) ==
    IF token \in {<<"i","a","c">>, s_infrastructureascode} THEN <<"i","a","c">>
    ELSE IF token \in {<<"a","w","s">>, s_amazonwebservices} THEN <<"a","w","s">>
    ELSE token

_tokenize(text) ==
    LET tokens == findall(lower(text), 1, <<>>)
    IN [i \in 1..Len(tokens) |-> canonical(tokens[i])]

\* " ".join(strings)
RECURSIVE join(_)
join(strings) ==
    IF strings = <<>> THEN <<>>
    ELSE IF Len(strings) = 1 THEN strings[1]
    ELSE strings[1] \o <<" ">> \o join(Tail(strings))

Doc(text, section, weight) == [text |-> text, section |-> section, weight |-> weight]

RECURSIVE ExperienceDocs(_, _)
ExperienceDocs(config, experiences) ==
    IF experiences = <<>> THEN <<>>
    ELSE LET exp == Head(experiences)
             w == config.section_weights
         IN (IF exp.title # <<>> THEN <<Doc(exp.title, "title", w.title)>> ELSE <<>>)
            \o (IF exp.summary # <<>>
                THEN <<Doc(exp.summary, "summary", w.summary)>> ELSE <<>>)
            \o [i \in 1..Len(exp.bullets) |->
                   Doc(exp.bullets[i], "bullets", w.bullets)]
            \o ExperienceDocs(config, Tail(experiences))

\* the documents of _build_documents before the token-less ones are removed
AllDocuments(config, profile) ==
    LET docs == ExperienceDocs(config, profile.experiences)
                \o (IF profile.skills # <<>>
                    THEN <<Doc(join(profile.skills), "skills",
                               config.section_weights.skills)>>
                    ELSE <<>>)
    IN [i \in 1..Len(docs) |->
           [text |-> docs[i].text, section |-> docs[i].section,
            weight |-> docs[i].weight, tokens |-> _tokenize(docs[i].text)]]

\* mutant of _build_documents: documents without a token are kept
_build_documents_unfiltered(config, profile) == AllDocuments(config, profile)

_build_documents(config, profile) ==
    SelectSeq(AllDocuments(config, profile), LAMBDA doc : doc.tokens # <<>>)

RECURSIVE UniqueQueries(_, _)
UniqueQueries(queries, seen) ==
    IF queries = <<>> THEN <<>>
    ELSE LET tokenized == join(_tokenize(Head(queries)))
         IN IF tokenized = <<>> \/ tokenized \in seen
            THEN UniqueQueries(Tail(queries), seen)
            ELSE <<Head(queries)>>
                 \o UniqueQueries(Tail(queries), seen \cup {tokenized})

_build_queries(jd) == UniqueQueries(jd.requirements_text \o jd.key_phrases, {})

\* the set of the tokens and of the tokens of their synonyms
_expand_tokens(config, tokens) ==
    LET expanded == {tokens[i] : i \in 1..Len(tokens)}
        alts(token) ==
            IF token \in DOMAIN config.synonyms THEN config.synonyms[token]
            ELSE <<>>
    IN expanded \cup
       UNION {UNION {LET alt == _tokenize(alts(token)[k])
                     IN {alt[j] : j \in 1..Len(alt)} : k \in 1..Len(alts(token))}
              : token \in expanded}

Positions(doc_tokens, token) == {i \in 1..Len(doc_tokens) : doc_tokens[i] = token}

Abs(n) == IF n < 0 THEN -n ELSE n

\* min(token_positions, key=lambda pos: abs(pos - start_idx)): the first of
\* the nearest positions
Nearest(token_positions, start_idx) ==
    CHOOSE best \in token_positions :
        \A pos \in token_positions :
            \/ Abs(best - start_idx) < Abs(pos - start_idx)
            \/ Abs(best - start_idx) = Abs(pos - start_idx) /\ best <= pos

SetMaximum(S) == CHOOSE x \in S : \A y \in S : y <= x

SetMinimum(S) == CHOOSE x \in S : \A y \in S : x <= y

\* span of the loop of _proximity_bonus for one start position
SpanFrom(doc_tokens, query_tokens, start_idx) ==
    SetMaximum({start_idx} \cup
               {Nearest(Positions(doc_tokens, token), start_idx) :
                    token \in query_tokens})
    - start_idx + 1

NoBonus == [num |-> 0, den |-> 1]

_proximity_bonus(config, doc_tokens, query_tokens) ==
    IF Cardinality(query_tokens) <= 1 THEN NoBonus
    ELSE IF \E token \in query_tokens : Positions(doc_tokens, token) = {}
    THEN NoBonus
    ELSE LET starts == UNION {Positions(doc_tokens, token) : token \in query_tokens}
             min_span == SetMinimum({SpanFrom(doc_tokens, query_tokens, start_idx) :
                                         start_idx \in starts})
         IN IF min_span <= config.window
            THEN [num |-> config.alpha_proximity, den |-> 100 * (1 + min_span)]
            ELSE NoBonus

\* 10^4 * log(1 + (N - df + 0.5) / (df + 0.5)), rounded: row N, column df
LogTable ==
    << <<2877>>,
       <<6931, 1823>>,
       <<9808, 4700, 1335>>,
       <<12040, 6931, 3567, 1054>>,
       <<13863, 8755, 5390, 2877, 870>>,
       <<15404, 10296, 6931, 4418, 2412, 741>>,
       <<16740, 11632, 8267, 5754, 3747, 2076, 645>>,
       <<17918, 12809, 9445, 6931, 4925, 3254, 1823, 572>>,
       <<18971, 13863, 10498, 7985, 5978, 4308, 2877, 1625, 513>>,
       <<19924, 14816, 11451, 8938, 6931, 5261, 3830, 2578, 1466, 465>>,
       <<20794, 15686, 12321, 9808, 7802, 6131, 4700, 3448, 2336, 1335, 426>>,
       <<21595, 16487, 13122, 10609, 8602, 6931, 5500, 4249, 3137, 2136, 1226, 392>> >>

\* idf[token] of _compute_idf, in ten-thousandths
_compute_idf(token_docs, token) ==
    LET total_docs == Len(token_docs)
        freq == Cardinality({i \in 1..total_docs : Positions(token_docs[i], token) # {}})
    IN IF freq = 0 THEN 0 ELSE LogTable[total_docs][freq]

\* bm25 of one document in ten-thousandths; avg_doc_len is total_len / doc_count,
\* so token_idf * freq * (k1 + 1) / denom is
\* token_idf * freq * (k1 + 1) * total_len
\*     / (freq * total_len + k1 * ((1 - b) * total_len + b * doc_len * doc_count))
DocBM25(config, doc, query_tokens, token_docs) ==
    LET doc_count == Len(token_docs)
        total_len == SumOver(1..doc_count, [i \in 1..doc_count |-> Len(token_docs[i])])
        doc_len == Len(doc.tokens)
        term(token) ==
            LET freq == Cardinality(Positions(doc.tokens, token))
            IN IF freq = 0 THEN 0
               ELSE (_compute_idf(token_docs, token) * freq * (config.k1 + 100)
                        * total_len)
                    \div (100 * freq * total_len
                          + (config.k1 * ((100 - config.b) * total_len
                                          + config.b * doc_len * doc_count))
                            \div 100)
    IN SumOver(query_tokens, [token \in query_tokens |-> term(token)])

\* a fraction in ten-thousandths, truncated
TenThousandths(q) == (10000 * q.num) \div q.den

\* the loop of _score_query over the documents from index i on
RECURSIVE ScoreFrom(_, _, _, _, _, _, _)
ScoreFrom(config, query_text, query_tokens, docs, i, best_score, best_hit) ==
    IF i > Len(docs) THEN best_hit
    ELSE LET doc == docs[i]
             token_docs == [k \in 1..Len(docs) |-> docs[k].tokens]
             bm25 == DocBM25(config, doc, query_tokens, token_docs)
             proximity == _proximity_bonus(config, doc.tokens, query_tokens)
             weighted == (bm25 + TenThousandths(proximity)) * doc.weight
         IN IF bm25 <= 0
            THEN ScoreFrom(config, query_text, query_tokens, docs, i + 1,
                           best_score, best_hit)
            ELSE IF weighted > best_score
            THEN ScoreFrom(config, query_text, query_tokens, docs, i + 1, weighted,
                           [jd_text |-> query_text, resume_text |-> doc.text,
                            bm25 |-> bm25, proximity_bonus |-> proximity,
                            section |-> doc.section, weight |-> doc.weight])
            ELSE ScoreFrom(config, query_text, query_tokens, docs, i + 1,
                           best_score, best_hit)

_score_query(config, query_text, query_tokens, docs) ==
    ScoreFrom(config, query_text, query_tokens, docs, 1, 0, None)

\* the best of a set of ratios, 0.0 for no ratio
BestRatio(ratios) ==
    IF ratios = {} THEN [num |-> 0, den |-> 1]
    ELSE CHOOSE best \in ratios :
             \A ratio \in ratios : best.num * ratio.den >= ratio.num * best.den

CandidateTitles(profile) ==
    SelectSeq([i \in 1..Len(profile.experiences) |-> profile.experiences[i].title],
              LAMBDA title : title # <<>>)

\* round(best * 0.2, 4), in hundredths
TitleBonusOf(best) == PyFloat((100 * best.num) \div (5 * best.den))

\* best ratio over the pairs of a job title and a candidate title
_compute_title_bonus(profile, jd) ==
    TitleBonusOf(BestRatio({token_set_ratio(job_title, candidate_title) :
                               job_title \in TokenSet(jd.role_titles),
                               candidate_title \in TokenSet(CandidateTitles(profile))}))

BM25Metadata(config, hits) ==
    PyDict([k1 |-> config.k1, b |-> config.b,
            alpha_proximity |-> config.alpha_proximity,
            window |-> config.window, hits |-> hits])

_empty_payload(config) ==
    [method |-> PyName("bm25_proximity"),
     scores |-> PyDict([bm25_prox |-> PyFloat(0), title_bonus |-> PyFloat(0)]),
     metadata |-> BM25Metadata(config, <<>>)]

\* the payload of evaluate, from the best hits and the title bonus
BM25Payload(config, hits, title_bonus) ==
    LET total_score ==
            SumOver(1..Len(hits), [h \in 1..Len(hits) |->
                hits[h].bm25 + TenThousandths(hits[h].proximity_bonus)])
        bm25_score == IF hits # <<>> THEN total_score \div Len(hits) ELSE 0
    IN [method |-> PyName("bm25_proximity"),
        scores |-> PyDict([bm25_prox |-> PyFloat(bm25_score \div 100),
                           title_bonus |-> title_bonus]),
        metadata |-> BM25Metadata(config, hits)]

\* the best hit of every query that has one
BestHits(config, queries, docs) ==
    SelectSeq([q \in 1..Len(queries) |->
                  _score_query(config, queries[q],
                               _expand_tokens(config, _tokenize(queries[q])), docs)],
              LAMBDA hit : hit # None)

\* evaluate once the documents are known
BM25Of(config, profile, jd, docs) ==
    IF docs = <<>> THEN _empty_payload(config)
    ELSE BM25Payload(config, BestHits(config, _build_queries(jd), docs),
                     _compute_title_bonus(profile, jd))

BM25ProximityEvaluator_evaluate(self, cand, ctx) ==
    BM25Of(self.config, cand, ctx.job, _build_documents(self.config, cand))

-----------------------------------------------------------------------------
(* EmbeddingSimilarityEvaluator: TF-IDF cosine of JD texts and resume       *)
(* entries. idf values are hundredths, cosines thousandths, the emitted     *)
(* scores hundredths.                                                       *)

EmbeddingSimilarityConfig_top_k == 3

embed_section_weights == [bullets |-> 100, summary |-> 80, title |-> 70]

EmbeddingSimilarityConfig(top_k, synonyms) ==
    [top_k |-> top_k, section_weights |-> embed_section_weights,
     synonyms |-> synonyms]

\* the synonyms of the tokens, in token order
RECURSIVE Extras(_, _)
Extras(synonyms, tokens) ==
    IF tokens = <<>> THEN <<>>
    ELSE (IF Head(tokens) \in DOMAIN synonyms THEN synonyms[Head(tokens)] ELSE <<>>)
         \o Extras(synonyms, Tail(tokens))

AugmentedWith(text, extras) ==
    IF extras # <<>> THEN text \o <<" ">> \o JoinSorted(TokenSet(extras)) ELSE text

_augment_text(config, text) ==
    AugmentedWith(text, Extras(config.synonyms, _tokenize(text)))

Entry(config, text, section) ==
    [text |-> text, augmented_text |-> _augment_text(config, text),
     section |-> section, weight |-> config.section_weights[section]]

RECURSIVE ExperienceEntries(_, _)
ExperienceEntries(config, experiences) ==
    IF experiences = <<>> THEN <<>>
    ELSE LET exp == Head(experiences)
         IN (IF exp.title # <<>> THEN <<Entry(config, exp.title, "title")>> ELSE <<>>)
            \o (IF exp.summary # <<>>
                THEN <<Entry(config, exp.summary, "summary")>> ELSE <<>>)
            \o [i \in 1..Len(exp.bullets) |-> Entry(config, exp.bullets[i], "bullets")]
            \o ExperienceEntries(config, Tail(experiences))

_collect_resume_entries(config, profile) ==
    SelectSeq(ExperienceEntries(config, profile.experiences),
              LAMBDA entry : entry.text # <<>>)

\* round(100 * (log((1 + total_docs) / (1 + freq)) + 1)), by total_docs, freq
IdfTable ==
    << <<100>>,
       <<141, 100>>,
       <<169, 129, 100>>,
       <<192, 151, 122, 100>>,
       <<210, 169, 141, 118, 100>>,
       <<225, 185, 156, 134, 115, 100>>,
       <<239, 198, 169, 147, 129, 113, 100>>,
       <<250, 210, 181, 159, 141, 125, 112, 100>>,
       <<261, 220, 192, 169, 151, 136, 122, 111, 100>>,
       <<270, 230, 201, 179, 161, 145, 132, 120, 110, 100>>,
       <<279, 239, 210, 188, 169, 154, 141, 129, 118, 109, 100>>,
       <<287, 247, 218, 196, 177, 162, 149, 137, 126, 117, 108, 100>>,
       <<295, 254, 225, 203, 185, 169, 156, 144, 134, 124, 115, 107, 100>>,
       <<301, 261, 232, 210, 192, 176, 163, 151, 141, 131, 122, 114, 107, 100>>,
       <<308, 267, 239, 216, 198, 183, 169, 158, 147, 137, 129, 121, 113, 106,
         100>>,
       <<314, 273, 245, 222, 204, 189, 175, 164, 153, 144, 135, 127, 119, 113,
         106, 100>> >>

TokensOf(documents) ==
    UNION {{documents[d][k] : k \in 1..Len(documents[d])} : d \in 1..Len(documents)}

\* the idf of every token of the non-empty documents
IdfOf(documents) ==
    [token \in TokensOf(documents) |->
        IdfTable[Len(documents)]
                [Cardinality({d \in 1..Len(documents) :
                                 Positions(documents[d], token) # {}})]]

embed_compute_idf(documents) ==
    IdfOf(SelectSeq(documents, LAMBDA tokens : tokens # <<>>))

\* the weights of a text: count * idf for the tokens the idf table knows.
\* The division by the number of tokens is left out: it scales the whole
\* vector and the cosine does not change with it.
_tfidf_vector(tokens, idf) ==
    [token \in TokenSet(tokens) \cap DOMAIN idf |->
        Cardinality(Positions(tokens, token)) * idf[token]]

isqrt(n) == CHOOSE r \in 0..1000 : r * r <= n /\ (r + 1) * (r + 1) > n

Dot(vec_a, vec_b) ==
    SumOver(DOMAIN vec_a \cap DOMAIN vec_b,
            [token \in DOMAIN vec_a \cap DOMAIN vec_b |-> vec_a[token] * vec_b[token]])

\* dot / (norm_a * norm_b) in thousandths:
\* the root of (dot / norm_a^2) * (dot / norm_b^2)
CosineOf(dot, square_a, square_b) ==
    IF dot = 0 THEN 0
    ELSE isqrt(((1000 * dot) \div square_a) * ((1000 * dot) \div square_b))

_cosine_similarity(vec_a, vec_b) ==
    IF DOMAIN vec_a = {} \/ DOMAIN vec_b = {} THEN 0
    ELSE CosineOf(Dot(vec_a, vec_b), Dot(vec_a, vec_a), Dot(vec_b, vec_b))

\* list.sort(key=similarity, reverse=True): stable, largest first
RECURSIVE InsertBySimilarityDesc(_, _)
InsertBySimilarityDesc(sorted, item) ==
    IF sorted = <<>> THEN <<item>>
    ELSE IF Head(sorted).similarity < item.similarity
    THEN <<item>> \o sorted
    ELSE <<Head(sorted)>> \o InsertBySimilarityDesc(Tail(sorted), item)

RECURSIVE SortBySimilarityDesc(_)
SortBySimilarityDesc(items) ==
    IF items = <<>> THEN <<>>
    ELSE InsertBySimilarityDesc(SortBySimilarityDesc(SubSeq(items, 1, Len(items) - 1)),
                                items[Len(items)])

\* the pairs of one JD text with every resume entry, in entry order
EvidenceRow(jd_text, resume_entries, sims) ==
    [e \in 1..Len(resume_entries) |->
        [jd_text |-> jd_text, resume_text |-> resume_entries[e].text,
         similarity |-> sims[e], section |-> resume_entries[e].section,
         weight |-> resume_entries[e].weight]]

RECURSIVE EvidenceRows(_, _, _)
EvidenceRows(jd_texts, resume_entries, similarity_matrix) ==
    IF jd_texts = <<>> THEN <<>>
    ELSE EvidenceRow(Head(jd_texts), resume_entries, Head(similarity_matrix))
         \o EvidenceRows(Tail(jd_texts), resume_entries, Tail(similarity_matrix))

_collect_evidence(jd_texts, resume_entries, similarity_matrix) ==
    SortBySimilarityDesc(
        SelectSeq(EvidenceRows(jd_texts, resume_entries, similarity_matrix),
                  LAMBDA item : item.similarity > 0))

TitleVectors(config, texts, idf) ==
    {_tfidf_vector(_tokenize(_augment_text(config, texts[i])), idf) : i \in 1..Len(texts)}

\* the largest cosine of a role title and a candidate title, in thousandths
BestCosine(job_vectors, candidate_vectors) ==
    SetMaximum({0} \cup {_cosine_similarity(job_vec, candidate_vec) :
                            job_vec \in job_vectors,
                            candidate_vec \in candidate_vectors})

_title_similarity(config, jd, profile, idf) ==
    IF jd.role_titles = <<>> THEN 0
    ELSE IF CandidateTitles(profile) = <<>> THEN 0
    ELSE BestCosine(TitleVectors(config, jd.role_titles, idf),
                    TitleVectors(config, CandidateTitles(profile), idf))

EmbedMetadata(config, evidence_pairs) ==
    PyDict([model |-> "tfidf-cosine-lite", top_k |-> config.top_k,
            evidence_pairs |-> evidence_pairs])

embed_empty_payload(config) ==
    [method |-> PyName("embed_similarity"),
     scores |-> PyDict([embed_sim |-> PyFloat(0), sim_title |-> PyFloat(0)]),
     metadata |-> EmbedMetadata(config, <<>>)]

\* evidence[:top_k]
FirstK(items, k) == SubSeq(items, 1, IF Len(items) < k THEN Len(items) ELSE k)

\* the payload of evaluate, from the top evidence and the title similarity
EmbedPayload(config, top, title_similarity) ==
    [method |-> PyName("embed_similarity"),
     scores |->
        PyDict([embed_sim |->
                    PyFloat((SumOver(1..Len(top), [e \in 1..Len(top) |-> top[e].similarity])
                                \div Len(top)) \div 10),
                sim_title |-> PyFloat(title_similarity \div 10)]),
     metadata |-> EmbedMetadata(config, top)]

\* evaluate once the evidence is known
EmbedWithEvidence(config, jd, profile, idf, evidence) ==
    IF evidence = <<>> THEN embed_empty_payload(config)
    ELSE EmbedPayload(config, FirstK(evidence, config.top_k),
                      _title_similarity(config, jd, profile, idf))

\* evaluate once the idf table is known
EmbedWithIdf(config, jd, profile, jd_texts, resume_entries, corpus, resume_tokens, idf) ==
    EmbedWithEvidence(config, jd, profile, idf,
        _collect_evidence(jd_texts, resume_entries,
            [j \in 1..Len(corpus) |->
                [e \in 1..Len(resume_tokens) |->
                    _cosine_similarity(_tfidf_vector(corpus[j], idf),
                                       _tfidf_vector(resume_tokens[e], idf))]]))

\* evaluate once the token lists are known
EmbedWithTokens(config, jd, profile, jd_texts, resume_entries, corpus, resume_tokens) ==
    IF (\A j \in 1..Len(corpus) : corpus[j] = <<>>)
       \/ (\A e \in 1..Len(resume_tokens) : resume_tokens[e] = <<>>)
    THEN embed_empty_payload(config)
    ELSE EmbedWithIdf(config, jd, profile, jd_texts, resume_entries, corpus,
                      resume_tokens, embed_compute_idf(corpus \o resume_tokens))

\* evaluate once the JD texts and the resume entries are known
EmbedWithEntries(config, jd, profile, jd_texts, resume_entries) ==
    IF jd_texts = <<>> THEN embed_empty_payload(config)
    ELSE IF resume_entries = <<>> THEN embed_empty_payload(config)
    ELSE EmbedWithTokens(config, jd, profile, jd_texts, resume_entries,
             [j \in 1..Len(jd_texts) |-> _tokenize(_augment_text(config, jd_texts[j]))],
             [e \in 1..Len(resume_entries) |->
                 _tokenize(resume_entries[e].augmented_text)])

EmbeddingSimilarityEvaluator_evaluate(self, cand, ctx) ==
    EmbedWithEntries(self.config, ctx.job, cand,
                     SelectSeq(ctx.job.requirements_text, LAMBDA text : text # <<>>),
                     _collect_resume_entries(self.config, cand))

-----------------------------------------------------------------------------
(* Evaluators as ScreeningCore sees them: objects with evaluate().          *)
(* A stub evaluator returns a fixed payload (duck-typed, as in the tests);  *)
(* the built-in SalaryEvaluator computes its payload.                       *)

StubEvaluator(result) == [kind |-> "stub", result |-> result]

SalaryEvaluator ==
    [kind |-> "salary",
     config |-> [tolerance_ratio |-> SalaryConfig_tolerance_ratio]]

\* TenureEvaluator(config=..., now_provider=...)
TenureEvaluator(config, now_provider) ==
    [kind |-> "tenure", config |-> config, now_provider |-> now_provider]

BM25ProximityEvaluator(config) == [kind |-> "bm25_proximity", config |-> config]

EmbeddingSimilarityEvaluator(config) == [kind |-> "embed_similarity", config |-> config]

JDMatcher ==
    [kind |-> "jd_rule",
     config |-> [min_similarity |-> JDMatcherConfig_min_similarity]]

evaluator_evaluate(evaluator, cand, ctx) ==
    CASE evaluator.kind = "salary" ->
             SalaryEvaluator_evaluate(evaluator.config, cand, ctx)
      [] evaluator.kind = "tenure" ->
             TenureEvaluator_evaluate(evaluator, cand, ctx)
      [] evaluator.kind = "jd_rule" ->
             JDMatcher_evaluate(evaluator, cand, ctx)
      [] evaluator.kind = "bm25_proximity" ->
             BM25ProximityEvaluator_evaluate(evaluator, cand, ctx)
      [] evaluator.kind = "embed_similarity" ->
             EmbeddingSimilarityEvaluator_evaluate(evaluator, cand, ctx)
      [] OTHER -> evaluator.result

-----------------------------------------------------------------------------
(* ScreeningCore.evaluate.                                                  *)

_normalize_evaluation_result(payload) ==
    LET method == DictGet(payload, "method")
        scores == PyOr(DictGet(payload, "scores"), PyDict(EmptyDict))
        metadata == PyOr(DictGet(payload, "metadata"), PyDict(EmptyDict))
    IN IF method.t = "None"
       THEN Raised("ValueError: Evaluator result must include 'method'.")
       ELSE IF scores.t # "dict"
       THEN Raised("ValueError: Evaluator result 'scores' must be a mapping.")
       ELSE IF \E k \in DOMAIN scores.v : float_raises(scores.v[k])
       THEN Raised("float(): could not convert score value")
       ELSE Returned([method |-> method.v,
                      scores |-> [k \in DOMAIN scores.v |-> float(scores.v[k])],
                      metadata |-> metadata.v])

\* mutant of Accumulate: a later evaluator overwrites the key
Accumulate_overwrite(agg, scores) ==
    [k \in DOMAIN agg \cup DOMAIN scores |->
        IF k \in DOMAIN scores THEN scores[k] ELSE agg[k]]

\* mutant of Accumulate: the first evaluator to emit a key wins
Accumulate_setdefault(agg, scores) ==
    [k \in DOMAIN agg \cup DOMAIN scores |->
        IF k \in DOMAIN agg THEN agg[k] ELSE scores[k]]

\* for key, value in normalized.scores.items():
\*     aggregated_scores[key] = aggregated_scores.get(key, 0.0) + float(value)
Accumulate(agg, scores) ==
    [k \in DOMAIN agg \cup DOMAIN scores |->
        IF k \in DOMAIN scores THEN GetOrZero(agg, k) + scores[k] ELSE agg[k]]

\* ScreeningCore.__init__: `score_weights or DEFAULT_WEIGHTS.copy()`
init_score_weights(arg) == PyOr(arg, PyDict(DEFAULT_WEIGHTS)).v

\* ScreeningCore.__init__: `thresholds or DEFAULT_THRESHOLDS.copy()`
init_thresholds(arg) == PyOr(arg, PyDict(DEFAULT_THRESHOLDS)).v

\* lines 92-98: serialize the inputs, build the evaluator context: the job
\* under "job", then every key of a truthy context (update)
Begin ==
    /\ pc = "start"
    /\ evaluation_context' =
           [job |-> job,
            as_of |-> IF Truthy(context) THEN context.v.as_of ELSE Missing,
            evaluation_overrides |->
                IF Truthy(context) THEN context.v.evaluation_overrides
                ELSE Missing,
            jd_keywords |->
                IF Truthy(context) THEN context.v.jd_keywords ELSE Missing]
    /\ evaluations' = <<>>
    /\ aggregated_scores' = EmptyDict
    /\ idx' = 1
    /\ pc' = "loop"
    /\ UNCHANGED <<pipeline, workers>>
    /\ UNCHANGED <<candidate, job, context, evaluators, score_weights,
                   thresholds, outcome, error>>

\* mutant of EvaluatorReturns: the result is put in front of the list
EvaluatorReturns_prepend ==
    /\ pc = "loop"
    /\ idx <= Len(evaluators)
    /\ LET raw_result ==
               evaluator_evaluate(evaluators[idx], candidate, evaluation_context)
           normalized == _normalize_evaluation_result(raw_result)
       IN /\ ~normalized.raised
          /\ evaluations' = <<normalized.value>> \o evaluations
          /\ aggregated_scores' =
                 Accumulate(aggregated_scores, normalized.value.scores)
    /\ idx' = idx + 1
    /\ UNCHANGED <<pipeline, workers>>
    /\ UNCHANGED <<candidate, job, context, evaluators, score_weights,
                   thresholds, pc, evaluation_context, outcome, error>>

\* lines 100-105: one evaluator returns a well-formed result
EvaluatorReturns ==
    /\ pc = "loop"
    /\ idx <= Len(evaluators)
    /\ LET raw_result ==
               evaluator_evaluate(evaluators[idx], candidate, evaluation_context)
           normalized == _normalize_evaluation_result(raw_result)
       IN /\ ~normalized.raised
          /\ evaluations' = Append(evaluations, normalized.value)
          /\ aggregated_scores' =
                 Accumulate(aggregated_scores, normalized.value.scores)
    /\ idx' = idx + 1
    /\ UNCHANGED <<pipeline, workers>>
    /\ UNCHANGED <<candidate, job, context, evaluators, score_weights,
                   thresholds, pc, evaluation_context, outcome, error>>

\* lines 100-102: normalization raises, evaluate propagates the exception
EvaluatorRaises ==
    /\ pc = "loop"
    /\ idx <= Len(evaluators)
    /\ LET raw_result ==
               evaluator_evaluate(evaluators[idx], candidate, evaluation_context)
           normalized == _normalize_evaluation_result(raw_result)
       IN /\ normalized.raised
          /\ error' = PyName(normalized.exc)
    /\ pc' = "error"
    /\ UNCHANGED <<pipeline, workers>>
    /\ UNCHANGED <<candidate, job, context, evaluators, score_weights,
                   thresholds, idx, evaluation_context, evaluations,
                   aggregated_scores, outcome>>

\* lines 107-134: weighted score, hard gates, decision, outcome
Return ==
    /\ pc = "loop"
    /\ idx > Len(evaluators)
    /\ LET pre_llm_score ==
               _compute_weighted_score(score_weights, aggregated_scores)
           hard_gate_flags == _evaluate_hard_gates(candidate, job)
           hard_failures == hard_failures_of(hard_gate_flags)
           final_decision == _decide(thresholds, pre_llm_score, hard_failures)
       IN outcome' = PyObj(
              [candidate_id |-> candidate.candidate_id,
               job_id |-> job.job_id,
               evaluations |-> evaluations,
               aggregate |-> [scores |-> aggregated_scores,
                              pre_llm_score |-> pre_llm_score],
               decision |-> [decision |-> final_decision,
                             pre_llm_score |-> pre_llm_score,
                             hard_gate_flags |-> hard_gate_flags,
                             hard_failures |-> hard_failures]])
    /\ pc' = "done"
    /\ UNCHANGED <<pipeline, workers>>
    /\ UNCHANGED <<candidate, job, context, evaluators, score_weights,
                   thresholds, idx, evaluation_context, evaluations,
                   aggregated_scores, error>>

Next == Begin \/ EvaluatorReturns \/ EvaluatorRaises \/ Return

-----------------------------------------------------------------------------
(* Inputs.                                                                  *)

Lang(s) == [language |-> s, level |-> None]

CandidateConstraints(visa) ==
    PyObj([language |-> <<>>, location |-> <<>>, visa |-> visa])

Candidate(languages, location, constraints, desired_min, desired_max) ==
    [candidate_id |-> "C-001",
     languages |-> languages,
     location |-> location,
     constraints |-> constraints,
     desired_salary_min_jpy |-> desired_min,
     desired_salary_max_jpy |-> desired_max,
     experiences |-> <<>>,
     skills |-> <<>>,
     notes |-> None]

SalaryRange(min_jpy, max_jpy) == PyObj([min_jpy |-> min_jpy, max_jpy |-> max_jpy])

Job(language, location, visa, salary_range) ==
    [job_id |-> "JD-001",
     role_titles |-> <<>>,
     requirements_text |-> <<>>,
     key_phrases |-> <<>>,
     constraints |-> [language |-> language,
                      location |-> location,
                      visa |-> visa,
                      salary_range |-> salary_range],
     evaluation_overrides |-> PyDict(EmptyDict)]

Payload(method, scores, metadata) ==
    [method |-> method, scores |-> scores, metadata |-> metadata]

Scores(f) == PyDict([k \in DOMAIN f |-> PyFloat(f[k])])

s_work == <<"w","o","r","k">>
s_pr == <<"p","r">>
s_tokyo == <<"t","o","k","y","o">>
s_osaka == <<"o","s","a","k","a">>
s_tokyo_kanji == <<"U+6771","U+4EAC">>

\* well-formed evaluator results
GoodResults ==
    { Payload(PyName("bm25_proximity"), Scores([bm25_prox |-> 100]), Missing),
      Payload(PyName("bm25_proximity"),
              Scores([bm25_prox |-> 50, title_bonus |-> 20]), Missing),
      Payload(PyName("embed_similarity"), Scores([embed_sim |-> 100]),
              PyDict([model |-> "tfidf-cosine-lite"])),
      Payload(PyName("embed_similarity"),
              Scores([embed_sim |-> 50, sim_title |-> 100]), None),
      Payload(PyName("jd_rule"),
              Scores([bm25_prox |-> 100, embed_sim |-> 100, jd_pass |-> 100]),
              Missing),
      Payload(PyName("tenure"), Scores([tenure_pass |-> 100]), Missing),
      Payload(PyName("stub"), PyDict(EmptyDict), Missing),
      Payload(PyName("stub"),
              PyDict([bm25_prox |-> PyStr(<<" ","1">>), jd_pass |-> PyInt(1)]),
              Missing) }

\* results whose scores are absent or a falsy value that is no mapping
FalsyScoresResults ==
    { Payload(PyName("stub"), Missing, Missing),
      Payload(PyName("stub"), None, Missing),
      Payload(PyName("stub"), PyList(<<>>), Missing),
      Payload(PyName("stub"), PyInt(0), Missing),
      Payload(PyName("stub"), PyStr(<<>>), Missing) }

\* results whose scores are a truthy value that is no mapping
TruthyNonMappingResults ==
    { Payload(PyName("stub"), PyList(<<PyFloat(100)>>), Missing),
      Payload(PyName("stub"), PyStr(<<"x">>), Missing),
      Payload(PyName("stub"), PyInt(1), Missing) }

\* results without a method
NoMethodResults ==
    { Payload(Missing, Scores([bm25_prox |-> 100]), Missing),
      Payload(None, Scores([embed_sim |-> 100]), Missing) }

\* results with a score value float() rejects
BadValueResults ==
    { Payload(PyName("stub"), PyDict([bm25_prox |-> PyStr(<<"x">>)]), Missing),
      Payload(PyName("stub"), PyDict([bm25_prox |-> None]), Missing) }

StubResults ==
    GoodResults \cup FalsyScoresResults \cup TruthyNonMappingResults
    \cup NoMethodResults \cup BadValueResults

CoreEvaluators == {StubEvaluator(r) : r \in StubResults} \cup {SalaryEvaluator}

\* <<score_weights argument, thresholds argument>> of ScreeningCore(...)
CoreConfigs ==
    { <<None, None>>,
      <<PyDict(EmptyDict), PyDict(EmptyDict)>>,
      <<PyDict([bm25_prox |-> 100, jd_pass |-> 50, sim_title |-> 10]),
        PyDict([pass |-> 10000, borderline |-> 5000, reject |-> 0])>>,
      <<None, PyDict([pass |-> 4000, borderline |-> 6500, reject |-> 9000])>> }

\* <<candidate, job>>: every gate passes; the language gate fails; the visa
\* and salary gates fail
CoreCases ==
    { <<Candidate(<<Lang(s_nihongo_kanji)>>, None, None, None, None),
        Job(<<s_ja>>, <<>>, None, None)>>,
      <<Candidate(<<Lang(s_eigo_kanji)>>, PyStr(s_tokyo), None, PyInt(7), PyInt(9)),
        Job(<<s_ja>>, <<s_tokyo>>, None, SalaryRange(PyInt(6), PyInt(9)))>>,
      <<Candidate(<<>>, None, None, PyInt(9), PyInt(11)),
        Job(<<>>, <<>>, PyStr(s_work), SalaryRange(PyInt(3), PyInt(5)))>> }

InitCall(cand, jd, ctx, evs, weights_arg, thresholds_arg) ==
    /\ candidate = cand
    /\ job = jd
    /\ context = ctx
    /\ evaluators = evs
    /\ score_weights = init_score_weights(weights_arg)
    /\ thresholds = init_thresholds(thresholds_arg)
    /\ pc = "start"
    /\ idx = 0
    /\ evaluation_context = None
    /\ evaluations = <<>>
    /\ aggregated_scores = EmptyDict
    /\ outcome = None
    /\ error = None
    /\ pipeline = None
    /\ workers = None

\* ScreeningCore over arbitrary evaluator lists, weights and thresholds
Init ==
    \E case \in CoreCases, cfg \in CoreConfigs,
       evs \in SeqsUpTo(MaxEvaluators, CoreEvaluators) :
        InitCall(case[1], case[2], None, evs, cfg[1], cfg[2])

Spec == Init /\ [][Next]_vars

-----------------------------------------------------------------------------
(* Inputs that exercise the hard gates.                                     *)

CandLangStrings ==
    { <<>>, <<" ">>, s_ja, <<"J","A">>, <<" ","j","p","\t">>,
      s_nihongo_kanji, <<"U+3000">> \o s_nihongo_kana,
      <<"E","n","g","l","i","s","h">>, s_eigo_kanji, <<"f","r">> }

ReqLangStrings ==
    { <<>>, s_ja, <<"J","P">>, s_japanese, s_en, <<" ","E","N">>,
      s_eigo_kana, <<"F","R"," ">> }

CandLocations ==
    { None, PyStr(<<>>), PyStr(<<" ">>), PyStr(s_tokyo),
      PyStr(<<" ","T","o","k","y","o"," ">>), PyStr(s_osaka),
      PyStr(s_tokyo_kanji) }

ReqLocStrings ==
    { <<>>, s_tokyo, <<"T","O","K","Y","O"," ">>, s_osaka, s_tokyo_kanji }

CandVisas ==
    { None, PyStr(<<>>), PyStr(<<" ">>), PyStr(s_ok),
      PyStr(<<" ","O","K"," ">>), PyStr(s_valid), PyStr(<<"Y","e","s">>),
      PyStr(s_work), PyStr(<<" ","W","o","r","k">>), PyStr(s_pr) }

ReqVisas ==
    { None, PyStr(<<>>), PyStr(<<" ">>), PyStr(s_work),
      PyStr(<<"W","O","R","K"," ">>), PyStr(s_pr), PyStr(s_ok),
      PyStr(<<"V","a","l","i","d">>) }

OptSalary == {None} \cup {PyInt(n) : n \in 0..MaxSalary}

SalaryRanges == {None} \cup {SalaryRange(a, b) : a, b \in OptSalary}

GoodStub ==
    StubEvaluator(Payload(PyName("bm25_proximity"),
                          Scores([bm25_prox |-> 100, embed_sim |-> 100]),
                          Missing))

BadStub == StubEvaluator(Payload(None, PyDict(EmptyDict), Missing))

InitLanguage ==
    \E ls \in SeqsUpTo(MaxCandLangs, CandLangStrings),
       req \in SeqsUpTo(MaxReqLangs, ReqLangStrings) :
        InitCall(Candidate([i \in 1..Len(ls) |-> Lang(ls[i])], None, None, None, None),
                 Job(req, <<>>, None, None), None, <<GoodStub>>, None, None)

InitLocation ==
    \E loc \in CandLocations, req \in SeqsUpTo(MaxReqLocs, ReqLocStrings) :
        InitCall(Candidate(<<>>, loc, None, None, None),
                 Job(<<>>, req, None, None), None, <<GoodStub>>, None, None)

InitVisa ==
    \E cc \in {None} \cup {CandidateConstraints(v) : v \in CandVisas},
       req \in ReqVisas :
        InitCall(Candidate(<<>>, None, cc, None, None),
                 Job(<<>>, <<>>, req, None), None, <<GoodStub>>, None, None)

\* every combination of the four gates passing and failing
InitCombined ==
    \E ls \in {<<>>, <<Lang(s_ja)>>},
       loc \in {None, PyStr(s_tokyo)},
       cc \in {None, CandidateConstraints(PyStr(s_work))},
       dmin \in {None, PyInt(9)},
       jd \in {Job(<<>>, <<>>, None, None),
               Job(<<s_ja>>, <<s_tokyo>>, PyStr(s_work),
                   SalaryRange(PyInt(3), PyInt(5)))},
       evs \in {<<>>, <<GoodStub>>, <<BadStub>>} :
        InitCall(Candidate(ls, loc, cc, dmin, None), jd, None, evs, None, None)

InitGates == InitLanguage \/ InitLocation \/ InitVisa \/ InitCombined

SpecGates == InitGates /\ [][Next]_vars

\* the context argument of evaluate: a dict with the keys the evaluators read
Context(as_of, evaluation_overrides, jd_keywords) ==
    PyDict([as_of |-> as_of,
            evaluation_overrides |-> evaluation_overrides,
            jd_keywords |-> jd_keywords])

\* an evaluation_overrides mapping
Overrides(salary, jd_keywords) ==
    PyDict([salary |-> salary, jd_keywords |-> jd_keywords])

SalaryOverrides(t) ==
    Context(Missing,
            Overrides(PyDict([tolerance_ratio |-> PyFloat(t)]), Missing),
            Missing)

\* the salary gate and the SalaryEvaluator over every desired range and
\* every job range
InitSalary ==
    \/ \E dmin \in OptSalary, dmax \in OptSalary, range \in SalaryRanges,
          ctx \in {None, SalaryOverrides(0), SalaryOverrides(25)} :
           InitCall(Candidate(<<>>, None, None, dmin, dmax),
                    Job(<<>>, <<>>, None, range), ctx, <<SalaryEvaluator>>,
                    None, None)
    \/ InitCall(Candidate(<<>>, None, None, None, None),
                Job(<<>>, <<>>, None, None), None,
                <<SalaryEvaluator, BadStub>>, None, None)

SpecSalary == InitSalary /\ [][Next]_vars

-----------------------------------------------------------------------------
(* Properties of ScreeningCore.evaluate.                                    *)

Done == pc = "done"

Flags == outcome.v.decision.hard_gate_flags
Failures == outcome.v.decision.hard_failures
Decision == outcome.v.decision.decision
Score == outcome.v.decision.pre_llm_score

GateKeys == {"language_ok", "location_ok", "visa_ok", "salary_ok"}

\* C1: whenever evaluate computes a non-empty hard_failures list (some hard
\* gate is false), the decision of the returned outcome is reject, whatever
\* the pre_llm_score.
C1_HardFailureForcesReject ==
    Done => ((Failures # <<>> \/ \E g \in DOMAIN Flags : ~Flags[g])
                => Decision = "reject")

\* C1 witness: an outcome with a failed gate and a score at or above
\* thresholds.pass, decided reject.
C1_Witness ==
    /\ Done
    /\ Failures # <<>>
    /\ Score >= thresholds["pass"]
    /\ Decision = "reject"

\* C2: in a returned outcome, pass implies score >= thresholds.pass and no
\* hard failure; with no hard failure the decision is pass iff
\* score >= thresholds.pass, borderline iff thresholds.borderline <= score <
\* thresholds.pass, and reject otherwise.
C2_DecisionTiers ==
    Done =>
        /\ Decision \in {"pass", "borderline", "reject"}
        /\ Decision = "pass" => (Score >= thresholds["pass"] /\ Failures = <<>>)
        /\ Failures = <<>> =>
              /\ Decision = "pass" <=> Score >= thresholds["pass"]
              /\ Decision = "borderline" <=>
                     (thresholds["borderline"] <= Score /\ Score < thresholds["pass"])
              /\ Decision = "reject" <=>
                     (Score < thresholds["pass"] /\ Score < thresholds["borderline"])

\* C2 witness: outcomes without hard failures exactly on the pass threshold
\* (decided pass); a borderline outcome is reachable as well.
C2_Witness ==
    /\ Done
    /\ Failures = <<>>
    /\ Score = thresholds["pass"]
    /\ Decision = "pass"

\* what evaluator i emitted under key k (0 when it did not emit k)
Emitted(i, k) ==
    LET raw == evaluator_evaluate(evaluators[i], candidate, evaluation_context)
    IN IF raw.scores.t = "dict" /\ k \in DOMAIN raw.scores.v
       THEN float(raw.scores.v[k])
       ELSE 0

EmittedKeys(i) ==
    LET raw == evaluator_evaluate(evaluators[i], candidate, evaluation_context)
    IN IF raw.scores.t = "dict" THEN DOMAIN raw.scores.v ELSE {}

RECURSIVE SumEmitted(_, _)
SumEmitted(n, k) == IF n = 0 THEN 0 ELSE SumEmitted(n - 1, k) + Emitted(n, k)

\* C3: aggregate.scores holds, for every key some evaluator emitted, the sum
\* over all registered evaluators of the values emitted under that key, and
\* pre_llm_score is the sum over the metrics m of the weights map of
\* aggregate.scores.get(m, 0) * weights[m].
C3_AggregateIsSum ==
    Done =>
        LET agg == outcome.v.aggregate.scores
            n == Len(evaluators)
        IN /\ DOMAIN agg = UNION {EmittedKeys(i) : i \in 1..n}
           /\ \A k \in DOMAIN agg : agg[k] = SumEmitted(n, k)
           /\ outcome.v.aggregate.pre_llm_score =
                  SumOver(DOMAIN score_weights,
                          [m \in DOMAIN score_weights |->
                               score_weights[m] * SumEmitted(n, m)])
           /\ Score = outcome.v.aggregate.pre_llm_score

\* C3 witness: two evaluators emitted the same weighted key with non-zero
\* values, a key outside the weights map was emitted, and a weighted metric
\* was emitted by nobody.
C3_Witness ==
    /\ Done
    /\ Len(evaluators) = 2
    /\ \E k \in DOMAIN score_weights : Emitted(1, k) > 0 /\ Emitted(2, k) > 0
    /\ \E k \in DOMAIN outcome.v.aggregate.scores :
           k \notin DOMAIN score_weights /\ outcome.v.aggregate.scores[k] > 0
    /\ \E m \in DOMAIN score_weights : m \notin DOMAIN outcome.v.aggregate.scores

\* evaluate's loop and scoring run over the evaluator list evs, from the
\* aggregated scores agg on
RECURSIVE RunFrom(_, _)
RunFrom(evs, agg) ==
    IF evs = <<>> THEN agg
    ELSE RunFrom(Tail(evs),
                 Accumulate(agg,
                     _normalize_evaluation_result(
                         evaluator_evaluate(Head(evs), candidate,
                                            evaluation_context)).value.scores))

NonMappingScores(raw) == raw.scores.t \in {"list", "int", "float", "str"}

NoMethod(raw) == raw.method.t \in {"missing", "None"}

\* C5: if an evaluator returns a result with no method, or with scores that
\* are not a mapping (empty list, 0 and empty string included), evaluate
\* fails and returns no outcome.
C5_MalformedResultIsFatal ==
    \A i \in 1..Len(evaluators) :
        LET raw == evaluator_evaluate(evaluators[i], candidate, evaluation_context)
        IN (idx > i /\ (NoMethod(raw) \/ NonMappingScores(raw))) => pc = "error"

-----------------------------------------------------------------------------
(* Properties of the hard gates.                                            *)

GateLabel(g) ==
    CASE g = "language_ok" -> "language"
      [] g = "location_ok" -> "location"
      [] g = "visa_ok" -> "visa"
      [] g = "salary_ok" -> "salary"

\* C6: hard_gate_flags has exactly the keys language_ok, location_ok, visa_ok
\* and salary_ok, and hard_failures holds exactly the labels language,
\* location, visa, salary of the gates whose flag is false, each once.
C6_GateLabels ==
    Done =>
        /\ DOMAIN Flags = GateKeys
        /\ \A g \in GateKeys : Flags[g] \in BOOLEAN
        /\ {Failures[i] : i \in 1..Len(Failures)} =
               {GateLabel(g) : g \in {h \in GateKeys : ~Flags[h]}}
        /\ Len(Failures) = Cardinality({h \in GateKeys : ~Flags[h]})

\* C6 witness: an outcome where exactly the language and salary gates fail.
C6_Witness ==
    /\ Done
    /\ ~Flags["language_ok"] /\ Flags["location_ok"]
    /\ Flags["visa_ok"] /\ ~Flags["salary_ok"]
    /\ Failures = <<"language", "salary">>

JaSpellings == {s_nihongo_kanji, s_nihongo_kana, s_japanese, s_jp, s_ja}
EnSpellings == {s_eigo_kanji, s_eigo_kana, s_english, s_en}

CanonicalLanguage(s) ==
    LET trimmed == lower(strip(s))
    IN IF trimmed \in JaSpellings THEN s_ja
       ELSE IF trimmed \in EnSpellings THEN s_en
       ELSE trimmed

\* C7: language_ok is true when the required list is empty; otherwise it is
\* true iff some candidate language and some required language are equal
\* after alias normalization (a candidate without languages fails).
C7_LanguageGate ==
    Done =>
        LET req == job.constraints.language
            langs == candidate.languages
        IN Flags["language_ok"] <=>
               \/ req = <<>>
               \/ \E i \in 1..Len(langs), j \in 1..Len(req) :
                      CanonicalLanguage(langs[i].language) = CanonicalLanguage(req[j])

\* C7 witness: the gate passes although no candidate language equals a
\* required one even after trimming and lowercasing (only the aliases match),
\* and the matching candidate language carries surrounding whitespace.
C7_Witness ==
    /\ Done
    /\ job.constraints.language # <<>>
    /\ Flags["language_ok"]
    /\ \A i \in 1..Len(candidate.languages), j \in 1..Len(job.constraints.language) :
           lower(strip(candidate.languages[i].language))
               # lower(strip(job.constraints.language[j]))
    /\ \E i \in 1..Len(candidate.languages) :
           /\ strip(candidate.languages[i].language) # candidate.languages[i].language
           /\ CanonicalLanguage(candidate.languages[i].language)
                  = CanonicalLanguage(job.constraints.language[1])

Sentinels == {s_ok, s_valid, s_yes}

CandidateHasVisa ==
    /\ candidate.constraints.t # "None"
    /\ candidate.constraints.v.visa.t # "None"
    /\ candidate.constraints.v.visa.v # <<>>

NoVisaRequirement ==
    job.constraints.visa.t = "None" \/ job.constraints.visa.v = <<>>

\* C8 as claimed: visa_ok is true without a visa requirement; a candidate
\* with no visa value fails any requirement; otherwise visa_ok is true iff
\* the trimmed, lowercased values are equal or a sentinel (ok, valid, yes)
\* occurs on either side. (A whitespace-only candidate visa, of which the
\* claim does not say whether it is a value, is left unconstrained.)
C8_SentinelEitherSide ==
    Done =>
        /\ NoVisaRequirement => Flags["visa_ok"]
        /\ (~NoVisaRequirement /\ ~CandidateHasVisa) => ~Flags["visa_ok"]
        /\ (/\ ~NoVisaRequirement
            /\ CandidateHasVisa
            /\ strip(candidate.constraints.v.visa.v) # <<>>)
           => LET cv == lower(strip(candidate.constraints.v.visa.v))
                  rv == lower(strip(job.constraints.visa.v))
              IN Flags["visa_ok"] <=> (cv = rv \/ cv \in Sentinels \/ rv \in Sentinels)

\* C8 amended: visa_ok is true without a visa requirement; otherwise true iff
\* the candidate has a visa whose trimmed, lowercased value equals the
\* required one (trimmed, lowercased) or is itself one of ok, valid, yes; a
\* sentinel on the JD side is compared like any other value.
C8_SentinelCandidateSide ==
    Done =>
        (Flags["visa_ok"] <=>
            \/ NoVisaRequirement
            \/ /\ CandidateHasVisa
               /\ LET cv == lower(strip(candidate.constraints.v.visa.v))
                      rv == lower(strip(job.constraints.visa.v))
                  IN cv = rv \/ cv \in Sentinels)

\* C8 witness: the JD requires a sentinel value, the candidate holds another,
\* non-sentinel visa, and the gate fails.
C8_Witness ==
    /\ Done
    /\ ~NoVisaRequirement
    /\ lower(strip(job.constraints.visa.v)) \in Sentinels
    /\ CandidateHasVisa
    /\ lower(strip(candidate.constraints.v.visa.v)) \notin Sentinels
    /\ ~Flags["visa_ok"]

C10_InsufficientDataPasses ==
    \A i \in 1..Len(evaluations) :
        (/\ evaluations[i].method = "salary"
         /\ \/ job.constraints.salary_range.t = "None"
            \/ /\ candidate.desired_salary_min_jpy.t = "None"
               /\ candidate.desired_salary_max_jpy.t = "None")
        => /\ evaluations[i].scores["salary_pass"] = 100
           /\ evaluations[i].metadata.status = PyName("insufficient_data")
           /\ evaluations[i].metadata.message = PyName("insufficient_data")

-----------------------------------------------------------------------------
(* Properties of the SalaryEvaluator.                                       *)

SalaryResults == {i \in 1..Len(evaluations) : evaluations[i].method = "salary"}

BothRangesPresent ==
    /\ job.constraints.salary_range.t # "None"
    /\ \/ candidate.desired_salary_min_jpy.t # "None"
       \/ candidate.desired_salary_max_jpy.t # "None"

\* the stated desired values, as a set
StatedDesired ==
    {x.v : x \in {y \in {candidate.desired_salary_min_jpy,
                         candidate.desired_salary_max_jpy} : y.t # "None"}}

SetMin(S) == CHOOSE x \in S : \A y \in S : x <= y
SetMax(S) == CHOOSE x \in S : \A y \in S : x >= y

\* the tolerance the claim prescribes, in percent
ClaimedTolerance ==
    IF /\ context.t = "dict"
       /\ context.v.evaluation_overrides.t = "dict"
       /\ context.v.evaluation_overrides.v.salary.t = "dict"
       /\ context.v.evaluation_overrides.v.salary.v.tolerance_ratio.t = "float"
    THEN context.v.evaluation_overrides.v.salary.v.tolerance_ratio.v
    ELSE 10

\* C11: with both ranges present, the SalaryEvaluator takes the candidate
\* range as (min, max) of the stated desired values, expands each present
\* job bound by the tolerance (the context override when given, else 0.10),
\* and emits salary_pass = 1.0 iff the candidate range overlaps the expanded
\* range, a missing job bound being open; else 0.0.
C11_SalaryPassIsOverlap ==
    \A i \in SalaryResults :
        BothRangesPresent =>
            LET lo == SetMin(StatedDesired)
                hi == SetMax(StatedDesired)
                tol == ClaimedTolerance
                jmin == job.constraints.salary_range.v.min_jpy
                jmax == job.constraints.salary_range.v.max_jpy
                emin == IF jmin.t = "None" THEN None
                        ELSE PyFloat(jmin.v * (100 - tol))
                emax == IF jmax.t = "None" THEN None
                        ELSE PyFloat(jmax.v * (100 + tol))
                overlaps == /\ (emin.t = "None" \/ 100 * hi >= emin.v)
                            /\ (emax.t = "None" \/ 100 * lo <= emax.v)
                md == evaluations[i].metadata
            IN /\ md.desired_range = PyTuple(PyInt(lo), PyInt(hi))
               /\ md.tolerance_ratio = PyFloat(tol)
               /\ md.expanded_job_range = PyTuple(emin, emax)
               /\ evaluations[i].scores["salary_pass"] =
                      (IF overlaps THEN 100 ELSE 0)

\* C11 witness: a reversed desired range wholly above the raw job maximum
\* passes under an overridden tolerance of 0.25 and would not under 0.10.
C11_Witness ==
    /\ SalaryResults # {}
    /\ BothRangesPresent
    /\ ClaimedTolerance = 25
    /\ candidate.desired_salary_min_jpy.t # "None"
    /\ candidate.desired_salary_max_jpy.t # "None"
    /\ candidate.desired_salary_min_jpy.v > candidate.desired_salary_max_jpy.v
    /\ job.constraints.salary_range.v.max_jpy.t # "None"
    /\ 100 * candidate.desired_salary_max_jpy.v
           > 110 * job.constraints.salary_range.v.max_jpy.v
    /\ \A i \in SalaryResults : evaluations[i].scores["salary_pass"] = 100

-----------------------------------------------------------------------------
(* Inputs that exercise the TenureEvaluator.                                *)

MaxExperiences == 3

Experience(company, title, start, end, employment_type, summary, bullets) ==
    [company |-> company, title |-> title, start |-> start, end |-> end,
     employment_type |-> employment_type, summary |-> summary,
     bullets |-> bullets]

s_2022_01 == <<"2","0","2","2","-","0","1">>
s_2023_03 == <<"2","0","2","3","-","0","3">>
s_2024_02 == <<"2","0","2","4","-","0","2">>
s_2024_08 == <<"2","0","2","4","-","0","8">>
s_2024_12 == <<"2","0","2","4","-","1","2">>
s_2024_13 == <<"2","0","2","4","-","1","3">>
s_2022_01_20 == <<"2","0","2","2","-","0","1","-","2","0">>
s_2023_01_10 == <<"2","0","2","3","-","0","1","-","1","0">>
s_2024_10_15 == <<"2","0","2","4","-","1","0","-","1","5">>
s_genzai == <<"U+73FE","U+5728">>
s_unknown == <<"u","n","k","n","o","w","n">>
s_contractor == <<"c","o","n","t","r","a","c","t","o","r">>

\* a tenure history entry: only the dates and the employment type matter
Tenure(company, start, end, employment_type) ==
    Experience(company, <<>>, start, end, employment_type, <<>>, <<>>)

\* histories are drawn from these entries
HistoryExperiences ==
    { Tenure("A", PyStr(s_2022_01), PyStr(s_2023_03), None),
      Tenure("B", PyStr(s_2023_03), PyStr(s_2024_02), None),
      Tenure("C", PyStr(s_2024_02), PyStr(s_2024_08), PyStr(s_contractor)),
      Tenure("D", PyStr(s_2024_08), None, None),
      Tenure("E", PyStr(s_2022_01), PyStr(s_genzai), PyStr(s_contract)),
      Tenure("F", PyStr(s_2024_02), PyStr(s_2024_08),
             PyStr(<<" ","F","r","e","e","l","a","n","c","e"," ">>)),
      Tenure("G", PyStr(s_2023_03), PyStr(s_2024_02), PyStr(s_gyomu_itaku)),
      Tenure("H", PyStr(s_2022_01), PyStr(s_2024_02),
             PyStr(<<"C","O","N","T","R","A","C","T">>)),
      Tenure("J", PyStr(s_2024_13), PyStr(s_2024_08), None),
      Tenure("K", PyStr(s_2024_08), PyStr(s_2022_01), PyStr(s_contract)) }

\* further entries, evaluated one at a time
TenureExperiences ==
    HistoryExperiences \cup
    { Tenure("I", None, PyStr(s_2023_03), PyStr(s_contract)),
      Tenure("L", PyStr(s_2022_01_20), PyStr(s_2023_01_10), None),
      Tenure("M", PyStr(s_2023_03), PyStr(<<>>), None),
      Tenure("N", PyStr(s_unknown), None, None) }

\* the injected clock of the evaluator
Now == DateTime(2025, 1, 20)

WithExperiences(experiences) ==
    [Candidate(<<>>, None, None, None, None) EXCEPT !.experiences = experiences]

NoRequirements == Job(<<>>, <<>>, None, None)

InitTenure ==
    \/ \E exps \in SeqsUpTo(MaxExperiences, HistoryExperiences),
          window \in {2, TenureConfig_recent_window} :
           InitCall(WithExperiences(exps), NoRequirements,
                    Context(PyStr(s_2024_12), Missing, Missing),
                    <<TenureEvaluator(TenureConfig(window), Now)>>, None, None)
    \/ \E e \in TenureExperiences,
          ctx \in {None, Context(None, Missing, Missing),
                   Context(DateTime(2024, 10, 1), Missing, Missing),
                   Context(PyStr(s_2024_10_15), Missing, Missing),
                   Context(PyStr(s_unknown), Missing, Missing)} :
           InitCall(WithExperiences(<<e>>), NoRequirements, ctx,
                    <<TenureEvaluator(TenureConfig(TenureConfig_recent_window), Now),
                      BadStub>>,
                    None, None)

SpecTenure == InitTenure /\ [][Next]_vars

-----------------------------------------------------------------------------
(* Properties of the TenureEvaluator.                                       *)

TenureResults == {i \in 1..Len(evaluations) : evaluations[i].method = "tenure"}

Min2(a, b) == IF a < b THEN a ELSE b

KeptMonths(kept) == SumOver(1..Len(kept), [j \in 1..Len(kept) |-> kept[j].months])

\* the index sets of `size` kept experiences with the latest end dates
RecentWindows(kept, size) ==
    {W \in SUBSET (1..Len(kept)) :
        /\ Cardinality(W) = size
        /\ \A a \in W, b \in (1..Len(kept)) \ W :
               ~DateBefore(kept[a].end_date, kept[b].end_date)}

ShortIn(kept, W, threshold) ==
    Cardinality({j \in W : kept[j].months < threshold})

\* C12: is_job_hopper holds iff avg_months < average_threshold_months and
\* recent_short >= 2, where avg_months is the mean of the kept durations (0
\* if none) and recent_short counts the short ones among the recent_window
\* kept experiences with the latest end dates, and no others.
C12_JobHopperFlag ==
    \A i \in TenureResults :
        LET md == evaluations[i].metadata
            cfg == evaluators[i].config
            kept == md.per_experience
            n == Len(kept)
            total == KeptMonths(kept)
            avg_below == IF n = 0 THEN 0 < cfg.average_threshold_months
                         ELSE total < cfg.average_threshold_months * n
        IN /\ md.average_months.num * (IF n = 0 THEN 1 ELSE n)
                  = (IF n = 0 THEN 0 ELSE total) * md.average_months.den
           /\ \E W \in RecentWindows(kept, Min2(cfg.recent_window, n)) :
                  LET recent_short ==
                          ShortIn(kept, W, cfg.recent_short_threshold_months)
                  IN /\ md.recent_short_tenures = recent_short
                     /\ md.is_job_hopper <=> (avg_below /\ recent_short >= 2)

\* C12 witness: more kept experiences than the window holds, two of them
\* short, one of these strictly older than the whole window; the average is
\* below the threshold, recent_short is 1 and the candidate is not flagged.
C12_Witness ==
    \E i \in TenureResults :
        LET md == evaluations[i].metadata
            cfg == evaluators[i].config
            kept == md.per_experience
        IN /\ Len(kept) > cfg.recent_window
           /\ \E j \in (cfg.recent_window + 1)..Len(kept) :
                  /\ kept[j].months < cfg.recent_short_threshold_months
                  /\ \A a \in 1..cfg.recent_window :
                         DateBefore(kept[j].end_date, kept[a].end_date)
           /\ KeptMonths(kept) < cfg.average_threshold_months * Len(kept)
           /\ md.recent_short_tenures = 1
           /\ ~md.is_job_hopper

ContractorSet == {s_contract, s_freelance, s_gyomu_itaku}

\* the contractor relaxation as claimed, over the kept experiences
Relaxation(kept, cfg) ==
    /\ Len(kept) >= 1
    /\ \A j \in 1..Len(kept) :
           /\ kept[j].employment_type.t = "str"
           /\ lower(strip(kept[j].employment_type.v)) \in ContractorSet
    /\ KeptMonths(kept) >= cfg.contract_average_threshold_months * Len(kept)

\* C13: tenure_pass is 1.0 iff the candidate is not a job hopper or the
\* contractor relaxation applies: at least one kept experience, every kept
\* experience of a contractor type (trimmed, case-insensitive), and their
\* average at or above contract_average_threshold_months.
C13_TenurePass ==
    \A i \in TenureResults :
        LET md == evaluations[i].metadata
            kept == md.per_experience
            relaxed == Relaxation(kept, evaluators[i].config)
        IN /\ md.passes_contract_rule <=> relaxed
           /\ evaluations[i].scores["tenure_pass"] =
                  (IF ~md.is_job_hopper \/ relaxed THEN 100 ELSE 0)

\* C13 witness: an all-contractor profile flagged a hopper passes by the
\* relaxation, one of its types being recognised only after trimming and
\* lowercasing.
C13_Witness ==
    \E i \in TenureResults :
        LET md == evaluations[i].metadata
            kept == md.per_experience
        IN /\ md.is_job_hopper
           /\ Relaxation(kept, evaluators[i].config)
           /\ \E j \in 1..Len(kept) :
                  kept[j].employment_type.v \notin ContractorSet
           /\ evaluations[i].scores["tenure_pass"] = 100

\* what each date string of the inputs denotes ("none": no date)
DateMeanings ==
    { <<s_2022_01, DateTime(2022, 1, 1)>>, <<s_2023_03, DateTime(2023, 3, 1)>>,
      <<s_2024_02, DateTime(2024, 2, 1)>>, <<s_2024_08, DateTime(2024, 8, 1)>>,
      <<s_2024_12, DateTime(2024, 12, 1)>>,
      <<s_2022_01_20, DateTime(2022, 1, 20)>>,
      <<s_2023_01_10, DateTime(2023, 1, 10)>>,
      <<s_2024_10_15, DateTime(2024, 10, 15)>>,
      <<s_2024_13, None>>, <<s_genzai, None>>, <<s_unknown, None>>,
      <<<<>>, None>> }

DateMeaning(value) ==
    IF value.t \in {"None", "missing"} THEN None
    ELSE IF value.t = "datetime" THEN value
    ELSE (CHOOSE d \in DateMeanings : d[1] = value.v)[2]

\* the injected as_of date of evaluator i: the context's as_of when it
\* denotes a date, else the evaluator's clock
InjectedAsOf(i) ==
    IF context.t = "dict" /\ DateMeaning(context.v.as_of).t = "datetime"
    THEN DateMeaning(context.v.as_of)
    ELSE evaluators[i].now_provider

EndIsOpen(e) == e.end.t = "None" \/ e.end.v \in {<<>>, s_genzai}

ResolvedEnd(e, as_of) == IF EndIsOpen(e) THEN as_of ELSE DateMeaning(e.end)

DroppedByClaim(e, as_of) ==
    \/ DateMeaning(e.start).t = "None"
    \/ DateBefore(ResolvedEnd(e, as_of), DateMeaning(e.start))

\* the start moved k months ahead (the day of the month kept)
MonthsLater(from, k) ==
    LET months == 12 * from.v[1] + (from.v[2] - 1) + k
    IN DateTime(months \div 12, (months % 12) + 1, from.v[3])

\* the largest k such that the start moved k months ahead is not after `to`
WholeMonths(from, to) ==
    CHOOSE k \in 0..1200 :
        /\ ~DateBefore(to, MonthsLater(from, k))
        /\ DateBefore(to, MonthsLater(from, k + 1))

-----------------------------------------------------------------------------
(* Inputs that exercise the JDMatcher.                                      *)

MaxKeywords == 2

s_aws == <<"a","w","s">>
s_iac == <<"i","a","c">>
s_py == <<"p","y">>
s_k8s == <<"k","8","s">>
s_sre == <<"s","r","e">>
s_go == <<"g","o">>

\* keywords as a JD may spell them: padded, upper case, misspelt (close
\* enough for the fuzzy match), blank, empty
KeywordPool ==
    { s_iac, <<"A","W","S">>, <<" ","p","y"," ">>, <<"a","w","z">>, s_go,
      <<" ">>, <<>> }

NiceLists == { <<>>, <<s_py>>, <<s_go, <<" ","\t">>>>, <<s_sre, s_k8s>> }

WithCorpus(skills, languages, experiences, notes) ==
    [Candidate(languages, None, None, None, None)
        EXCEPT !.skills = skills, !.experiences = experiences, !.notes = notes]

JDCandidates ==
    { WithCorpus(<<>>, <<>>, <<>>, None),
      WithCorpus(<<<<"P","y">>, s_k8s>>, <<>>, <<>>, None),
      WithCorpus(<<<<"A","W","S">>>>, <<Lang(s_nihongo_kanji)>>,
                 <<Experience("X", <<"S","R","E">>, None, None, None, <<>>,
                              <<<<"a","w","s"," ","i","a","c">>>>)>>,
                 PyStr(s_go)) }

WithKeywords(key_phrases, role_titles) ==
    [NoRequirements EXCEPT !.key_phrases = key_phrases,
                           !.role_titles = role_titles]

Weights(must, nice, nice_to_have) ==
    PyDict([must |-> must, nice |-> nice, nice_to_have |-> nice_to_have])

\* contexts that carry keyword groups, weights or a title bonus
JDContexts ==
    { Context(Missing, Missing,
              JDKeywords(PyList(<<s_go>>), Missing, PyList(<<s_sre, s_py>>),
                         Missing, Missing)),
      Context(Missing,
              Overrides(Missing,
                        JDKeywords(PyList(<<>>), PyList(<<s_py, s_iac>>), Missing,
                                   Weights(PyFloat(200), Missing, PyFloat(0)),
                                   PyFloat(20))),
              JDKeywords(PyList(<<s_aws>>), Missing, PyList(<<s_k8s>>),
                         Missing, Missing)),
      Context(Missing,
              Overrides(Missing,
                        JDKeywords(Missing, Missing, PyList(<<s_k8s, s_go>>),
                                   Weights(PyFloat(0), PyFloat(0), PyFloat(0)),
                                   Missing)),
              Missing) }

\* a JD that carries its own evaluation_overrides
WithJobOverrides(jd, overrides) == [jd EXCEPT !.evaluation_overrides = overrides]

JobOverrides ==
    Overrides(PyDict([tolerance_ratio |-> PyFloat(25)]),
              JDKeywords(PyList(<<s_py>>), PyList(<<s_k8s>>), Missing,
                         Weights(PyFloat(200), Missing, Missing), Missing))

InitJD ==
    \/ \E cand \in JDCandidates, nice \in NiceLists,
          must \in SeqsUpTo(MaxKeywords, KeywordPool) :
           InitCall(cand, WithKeywords(must, nice), None, <<JDMatcher>>,
                    None, None)
    \/ \E cand \in JDCandidates, ctx \in JDContexts,
          must \in {<<>>, <<s_iac>>}, evs \in {<<JDMatcher>>, <<JDMatcher, BadStub>>} :
           InitCall(cand, WithKeywords(must, <<s_sre>>), ctx, evs, None, None)
    \/ \E cand \in JDCandidates, dmin \in {None, PyInt(9), PyInt(11)} :
           InitCall([cand EXCEPT !.desired_salary_min_jpy = dmin],
                    WithJobOverrides(
                        [WithKeywords(<<s_iac>>, <<>>) EXCEPT
                            !.constraints.salary_range =
                                SalaryRange(PyInt(5), PyInt(8))],
                        JobOverrides),
                    None, <<JDMatcher, SalaryEvaluator>>, None, None)

SpecJD == InitJD /\ [][Next]_vars

-----------------------------------------------------------------------------
(* Properties of the JDMatcher.                                             *)

JDResults == {i \in 1..Len(evaluations) : evaluations[i].method = "jd_rule"}

AllGroups == {"must", "nice", "nice_to_have"}

\* the matched keywords of group g, as a set
UniqueHits(md, g) ==
    IF md.hits[g].t = "missing" THEN {}
    ELSE {md.hits[g].v[k] : k \in 1..Len(md.hits[g].v)}

\* coverage of group g in hundredths: distinct hits over keywords, 1.0 for
\* an empty group
Coverage100(md, g) ==
    IF md.keywords[g] = <<>> THEN 100
    ELSE (100 * Cardinality(UniqueHits(md, g))) \div Len(md.keywords[g])

\* sum_g(w_g * coverage_g) / sum_g(w_g) over the groups G, clipped to
\* [0, 1], in hundredths; coverage_g is hits_g / size_g, 1 for an empty group
WeightedMean100(md, G) ==
    LET size(g) == IF md.keywords[g] = <<>> THEN 1 ELSE Len(md.keywords[g])
        hit(g) == IF md.keywords[g] = <<>> THEN 1
                  ELSE Cardinality(UniqueHits(md, g))
        common == size("must") * size("nice") * size("nice_to_have")
        num == SumOver(G, [g \in G |->
                   md.weights[g] * hit(g) * (common \div size(g))])
        den == common * SumOver(G, [g \in G |-> md.weights[g]])
    IN IF num <= 0 THEN 0
       ELSE IF num >= den THEN 100
       ELSE (100 * num) \div den

NoWeightOverride ==
    \/ evaluation_context.evaluation_overrides.t # "dict"
    \/ evaluation_context.evaluation_overrides.v.jd_keywords.t # "dict"
    \/ evaluation_context.evaluation_overrides.v.jd_keywords.v.weights.t # "dict"

\* C15 as claimed: coverage is distinct hits over keywords, 1.0 for an empty
\* group, and the score emitted as embed_sim and bm25_prox is the weighted
\* mean of the coverages over all three groups, empty ones counted with 1.0
\* (default weights 1.0, 0.75, 0.5).
C15_ScoreOverAllGroups ==
    \A i \in JDResults :
        LET md == evaluations[i].metadata
            scores == evaluations[i].scores
        IN NoWeightOverride =>
               /\ md.weights = default_weights
               /\ scores["jd_must_coverage"] = Coverage100(md, "must")
               /\ scores["jd_nice_coverage"] = Coverage100(md, "nice")
               /\ scores["embed_sim"] = WeightedMean100(md, AllGroups)
               /\ scores["bm25_prox"] = WeightedMean100(md, AllGroups)

\* C15 amended: coverage is distinct hits over keywords, 1.0 for an empty
\* group; the score emitted as embed_sim and bm25_prox is the weighted mean
\* of the coverages over the non-empty groups of positive weight only, and
\* 0.0 when there is no such group; weights default to 1.0, 0.75, 0.5.
C15_ScoreOverListedGroups ==
    \A i \in JDResults :
        LET md == evaluations[i].metadata
            scores == evaluations[i].scores
            G == {g \in AllGroups : md.keywords[g] # <<>> /\ md.weights[g] > 0}
            expected == IF G = {} THEN 0 ELSE WeightedMean100(md, G)
        IN /\ NoWeightOverride => md.weights = default_weights
           /\ scores["jd_must_coverage"] = Coverage100(md, "must")
           /\ scores["jd_nice_coverage"] = Coverage100(md, "nice")
           /\ scores["embed_sim"] = expected
           /\ scores["bm25_prox"] = expected

\* C15 witness: the must group is empty and the nice group is half matched;
\* the score is the nice coverage alone, below the mean over all groups.
C15_Witness ==
    \E i \in JDResults :
        LET md == evaluations[i].metadata
        IN /\ NoWeightOverride
           /\ md.keywords["must"] = <<>>
           /\ Len(md.keywords["nice"]) = 2
           /\ Cardinality(UniqueHits(md, "nice")) = 1
           /\ evaluations[i].scores["embed_sim"] = 50
           /\ WeightedMean100(md, AllGroups) > 50

MustMissed(md) == md.keywords["must"] # <<>> /\ UniqueHits(md, "must") = {}

\* C16 as claimed: when the must group is non-empty and none of its keywords
\* matches, jd_pass is 0.0 whatever the other groups match.
C16_MustMissFails ==
    \A i \in JDResults :
        MustMissed(evaluations[i].metadata)
            => evaluations[i].scores["jd_pass"] = 0

\* C16 amended: jd_pass is 1.0 iff some group of positive weight has a
\* matched keyword; so with the must group non-empty and unmatched, jd_pass
\* is 0.0 iff no nice or nice_to_have keyword of positive weight matches.
C16_PassIffAnyWeightedHit ==
    \A i \in JDResults :
        LET md == evaluations[i].metadata
        IN evaluations[i].scores["jd_pass"] =
               (IF \E g \in AllGroups :
                       md.weights[g] > 0 /\ UniqueHits(md, g) # {}
                THEN 100 ELSE 0)

\* C16 witness: a non-empty must group without any match and a matched nice
\* keyword; jd_pass is 1.0.
C16_Witness ==
    \E i \in JDResults :
        /\ MustMissed(evaluations[i].metadata)
        /\ UniqueHits(evaluations[i].metadata, "nice") # {}
        /\ evaluations[i].scores["jd_pass"] = 100

\* C17: the keywords the matcher works with are trimmed and none is empty,
\* whitespace-only keywords of the JD having been dropped.
C17_NoEmptyKeyword ==
    \A i \in JDResults :
        \A g \in AllGroups :
            LET keywords == evaluations[i].metadata.keywords[g]
            IN \A k \in 1..Len(keywords) :
                   keywords[k] # <<>> /\ strip(keywords[k]) = keywords[k]

JobJDKeywords == job.evaluation_overrides.v.jd_keywords

\* C18: when the JD carries evaluation_overrides and evaluate gets no
\* context, the JDMatcher works with the JD's jd_keywords groups and weights
\* and the SalaryEvaluator with the JD's salary.tolerance_ratio.
C18_JobOverridesReachEvaluators ==
    (DOMAIN job.evaluation_overrides.v # {} /\ context.t = "None") =>
        /\ \A i \in JDResults :
               /\ evaluations[i].metadata.keywords["must"] = JobJDKeywords.v.must.v
               /\ evaluations[i].metadata.keywords["nice"] = JobJDKeywords.v.nice.v
               /\ evaluations[i].metadata.weights["must"]
                      = JobJDKeywords.v.weights.v.must.v
        /\ \A i \in SalaryResults :
               evaluations[i].metadata.tolerance_ratio
                   = job.evaluation_overrides.v.salary.v.tolerance_ratio

-----------------------------------------------------------------------------
(* Inputs that exercise the BM25ProximityEvaluator.                         *)

MaxResumeEntries == 2

t_dashes == <<"-","-">>
t_blank == <<" ">>
t_marks == <<"!","!">>
t_aws_iac == <<"A","W","S"," ","I","a","C">>
t_iac_far_from_aws ==
    <<"i","a","c"," ","a"," ","b"," ","c"," ","d"," ","e"," ","f"," ","g",
      " ","h"," ","a","w","s">>
t_iac_aws_aws == <<"i","a","c"," ","a","w","s",","," ","a","w","s">>
t_aws_py == <<"a","w","s"," ","p","y">>
t_server == <<"U+30B5","U+30FC","U+30D0","U+30FC">>
t_sre_dashes == <<"s","r","e"," ","-","-">>
t_iac_on_aws == <<"I","a","C"," ","o","n"," ","A","W","S">>
t_aws_comma_iac == <<"a","w","s",","," ","i","a","c">>

Resume(title, summary, bullets) ==
    Experience("X", title, None, None, None, summary, bullets)

ResumeEntries ==
    { Resume(t_dashes, t_blank, <<t_marks>>),
      Resume(s_sre, <<>>, <<t_aws_iac>>),
      Resume(<<>>, t_iac_far_from_aws, <<>>),
      Resume(t_sre_dashes, s_iac, <<t_aws_py, t_iac_aws_aws>>) }

SkillLists == { <<>>, <<t_dashes>>, <<s_py, s_aws, t_server>> }

BM25Jobs ==
    { [NoRequirements EXCEPT !.requirements_text = requirements_text,
                             !.key_phrases = key_phrases,
                             !.role_titles = role_titles] :
        requirements_text \in {<<>>, <<t_aws_iac>>, <<t_iac_on_aws, s_iac>>},
        key_phrases \in {<<>>, <<s_aws>>, <<t_aws_comma_iac, t_marks>>},
        role_titles \in {<<>>, <<s_sre>>, <<t_dashes>>} }

DefaultBM25 == BM25ProximityEvaluator(BM25ProximityConfig(BM25ProximityConfig_window, NoSynonyms))

\* a narrow window and a synonym, as a deployment may configure them
TunedBM25 ==
    BM25ProximityEvaluator(
        BM25ProximityConfig(2, [token \in {s_py} |-> <<<<"P","y","t","h","o","n"," ","3">>>>]))

InitBM25 ==
    \/ \E experiences \in SeqsUpTo(MaxResumeEntries, ResumeEntries),
          skills \in SkillLists, jd \in BM25Jobs :
           InitCall(WithCorpus(skills, <<>>, experiences, None), jd, None,
                    <<DefaultBM25>>, None, None)
    \/ \E experience \in ResumeEntries, skills \in SkillLists,
          evs \in {<<TunedBM25>>, <<DefaultBM25, BadStub>>} :
           InitCall(WithCorpus(skills, <<>>, <<experience>>, None),
                    [NoRequirements EXCEPT !.requirements_text = <<t_aws_iac>>,
                                           !.key_phrases = <<t_aws_py>>,
                                           !.role_titles = <<s_sre>>],
                    None, evs, None, None)

SpecBM25 == InitBM25 /\ [][Next]_vars

-----------------------------------------------------------------------------
(* Properties of the BM25ProximityEvaluator.                                *)

BM25Results ==
    {i \in 1..Len(evaluations) : evaluations[i].method = "bm25_proximity"}

\* the text has a character a token can be made of
HasTokenChar(text) == \E k \in 1..Len(text) : CharClass(text[k]) # "none"

\* the texts the candidate's documents are made of
ResumeTexts ==
    UNION {{candidate.experiences[k].title, candidate.experiences[k].summary}
           \cup {candidate.experiences[k].bullets[b] :
                    b \in 1..Len(candidate.experiences[k].bullets)}
           : k \in 1..Len(candidate.experiences)}
    \cup {candidate.skills[k] : k \in 1..Len(candidate.skills)}

\* C19: when no title, summary, bullet or skill of the candidate yields a
\* token, the BM25 result has bm25_prox = 0, title_bonus = 0 and no hits,
\* whatever the job description is.
C19_NoDocumentsNoScore ==
    \A i \in BM25Results :
        (\A text \in ResumeTexts : ~HasTokenChar(text)) =>
            /\ evaluations[i].scores["bm25_prox"] = 0
            /\ evaluations[i].scores["title_bonus"] = 0
            /\ evaluations[i].metadata.hits = <<>>

\* C19 witness: a candidate with a title, a summary, a bullet and a skill,
\* none of which yields a token, evaluated against a JD with queries and a
\* role title.
C19_Witness ==
    \E i \in BM25Results :
        /\ candidate.experiences # <<>>
        /\ candidate.skills # <<>>
        /\ \A text \in ResumeTexts : text # <<>> /\ ~HasTokenChar(text)
        /\ job.key_phrases # <<>>
        /\ job.role_titles # <<>>
        /\ evaluations[i].metadata.hits = <<>>

\* the window [lo, hi] of the document holds every token of the query
Covers(doc_tokens, query_tokens, lo, hi) ==
    \A token \in query_tokens : \E pos \in lo..hi : doc_tokens[pos] = token

\* the bonus a covering window of the given span stands for
SpanBonus(config, span) ==
    IF span <= config.window
    THEN [num |-> config.alpha_proximity, den |-> 100 * (1 + span)]
    ELSE NoBonus

\* C20: the proximity bonus of a hit is 0 when some query token is missing
\* from the document, and otherwise alpha_proximity / (1 + span) if
\* span <= window, else 0, for the span hi - lo + 1 of a window of the
\* document that holds every query token (a single-token query included).
C20_BonusOfCoveringWindow ==
    \A i \in BM25Results :
        LET md == evaluations[i].metadata
            config == [window |-> md.window, alpha_proximity |-> md.alpha_proximity]
        IN \A h \in 1..Len(md.hits) :
               LET doc_tokens == _tokenize(md.hits[h].resume_text)
                   query == _tokenize(md.hits[h].jd_text)
                   query_tokens == {query[k] : k \in 1..Len(query)}
                   bonus == md.hits[h].proximity_bonus
               IN IF \E token \in query_tokens : Positions(doc_tokens, token) = {}
                  THEN bonus = NoBonus
                  ELSE \E lo \in 1..Len(doc_tokens), hi \in 1..Len(doc_tokens) :
                           /\ lo <= hi
                           /\ Covers(doc_tokens, query_tokens, lo, hi)
                           /\ bonus = SpanBonus(config, hi - lo + 1)

-----------------------------------------------------------------------------
(* Inputs that exercise the EmbeddingSimilarityEvaluator.                   *)

t_py_go == <<"p","y"," ","g","o">>
t_sre_aws == <<"S","R","E"," ","a","w","s">>
t_go_sre == <<"g","o"," ","s","r","e">>

EmbedResumes ==
    { Resume(s_sre, <<>>, <<>>),
      Resume(t_dashes, <<>>, <<t_marks>>),
      Resume(t_go_sre, t_aws_py, <<t_aws_iac, <<>>>>),
      Resume(<<>>, s_iac, <<t_iac_aws_aws>>) }

EmbedJobs ==
    { [NoRequirements EXCEPT !.requirements_text = requirements_text,
                             !.role_titles = role_titles] :
        requirements_text \in {<<>>, <<<<>>, t_marks>>, <<s_py>>, <<t_aws_iac>>,
                               <<t_iac_on_aws, t_py_go>>},
        role_titles \in {<<>>, <<s_sre>>, <<t_dashes>>, <<s_k8s, t_sre_aws>>} }

DefaultEmbed ==
    EmbeddingSimilarityEvaluator(
        EmbeddingSimilarityConfig(EmbeddingSimilarityConfig_top_k, NoSynonyms))

\* one evidence pair and synonyms, as a deployment may configure them
TunedEmbed ==
    EmbeddingSimilarityEvaluator(
        EmbeddingSimilarityConfig(1, [token \in {s_sre, s_py} |->
            IF token = s_sre THEN <<s_k8s, s_go, s_go>> ELSE <<s_aws>>]))

InitEmbed ==
    \/ \E experiences \in SeqsUpTo(MaxResumeEntries, EmbedResumes), jd \in EmbedJobs :
           InitCall(WithCorpus(<<>>, <<>>, experiences, None), jd, None,
                    <<DefaultEmbed>>, None, None)
    \/ \E experience \in EmbedResumes, jd \in EmbedJobs,
          evs \in {<<TunedEmbed>>, <<DefaultEmbed, BadStub>>} :
           InitCall(WithCorpus(<<>>, <<>>, <<experience>>, None), jd, None,
                    evs, None, None)

SpecEmbed == InitEmbed /\ [][Next]_vars

-----------------------------------------------------------------------------
(* Properties of the EmbeddingSimilarityEvaluator.                          *)

EmbedResults ==
    {i \in 1..Len(evaluations) : evaluations[i].method = "embed_similarity"}

\* the evaluator that produced the i-th evaluation
EvaluatorOf(i) == evaluators[i]

\* the token lists of the texts the evaluator collects: the non-empty
\* requirements and the candidate's titles, summaries and bullets
CollectedTokens(config) ==
    LET jd_texts == SelectSeq(job.requirements_text, LAMBDA text : text # <<>>)
        entries == _collect_resume_entries(config, candidate)
    IN [j \in 1..Len(jd_texts) |-> _tokenize(_augment_text(config, jd_texts[j]))]
       \o [e \in 1..Len(entries) |-> _tokenize(entries[e].augmented_text)]

\* some role title and some candidate title have a token in common
TitlesShareToken(config) ==
    \E r \in 1..Len(job.role_titles), c \in 1..Len(CandidateTitles(candidate)) :
        TokenSet(_tokenize(_augment_text(config, job.role_titles[r])))
        \cap TokenSet(_tokenize(_augment_text(config, CandidateTitles(candidate)[c])))
        # {}

\* C21: sim_title is the largest cosine over the pairs of a JD role title
\* and a candidate experience title; it is 0 only when there is no role
\* title, no candidate title, or no pair with a common token, whether or not
\* a requirement and a resume entry are similar.
C21_TitleSimilarityOfPairs ==
    \A i \in EmbedResults :
        LET config == EvaluatorOf(i).config
            sim_title == evaluations[i].scores["sim_title"]
        IN /\ sim_title =
                 _title_similarity(config, job, candidate,
                                   embed_compute_idf(CollectedTokens(config))) \div 10
           /\ sim_title = 0 =>
                 \/ job.role_titles = <<>>
                 \/ CandidateTitles(candidate) = <<>>
                 \/ ~TitlesShareToken(config)

\* sim_title departs from the title cosine only in results without evidence
C21_OnlyWithoutEvidence ==
    \A i \in EmbedResults :
        LET config == EvaluatorOf(i).config
        IN evaluations[i].metadata.evidence_pairs # <<>> =>
              /\ evaluations[i].scores["sim_title"] =
                    _title_similarity(config, job, candidate,
                                      embed_compute_idf(CollectedTokens(config))) \div 10
              /\ evaluations[i].scores["sim_title"] = 0 =>
                    \/ job.role_titles = <<>>
                    \/ CandidateTitles(candidate) = <<>>
                    \/ ~TitlesShareToken(config)

-----------------------------------------------------------------------------
(* The order of the steps of ScreeningCore.evaluate.                        *)

\* the normalized result of the k-th registered evaluator for this call
ResultOf(k) ==
    _normalize_evaluation_result(
        evaluator_evaluate(evaluators[k], candidate, evaluation_context)).value

\* C25: within one evaluate call the evaluators are invoked once each, in
\* registration order, with the same candidate and a context that holds the
\* job: the results so far are those of the first idx - 1 evaluators in that
\* order; the outcome exists only after every evaluator has returned, lists
\* the results in registration order, and carries the gates of the inputs.
C25_EvaluatorsInRegistrationOrder ==
    /\ pc = "loop" =>
          /\ evaluation_context.job = job
          /\ Len(evaluations) = idx - 1
          /\ idx <= Len(evaluators) + 1
          /\ \A k \in 1..Len(evaluations) : evaluations[k] = ResultOf(k)
    /\ pc # "done" => outcome = None
    /\ pc = "done" =>
          /\ idx = Len(evaluators) + 1
          /\ Len(outcome.v.evaluations) = Len(evaluators)
          /\ \A k \in 1..Len(evaluators) : outcome.v.evaluations[k] = ResultOf(k)
          /\ Flags = _evaluate_hard_gates(candidate, job)
          /\ Decision = _decide(thresholds, Score, Failures)

\* C25 witness: a finished call over two evaluators whose results differ
C25_Witness ==
    /\ pc = "done"
    /\ Len(evaluators) = 2
    /\ outcome.v.evaluations[1] # outcome.v.evaluations[2]
    /\ outcome.v.evaluations[1] = ResultOf(1)

-----------------------------------------------------------------------------
(* The decision as a function of the score.                                 *)

Rank(decision) ==
    CASE decision = "reject" -> 0
      [] decision = "borderline" -> 1
      [] decision = "pass" -> 2

\* scores and threshold values to compare the outcome with, ten-thousandths
ScoreGrid == {0, 2500, 4000, 4500, 5000, 6500, 8000, 9000, 10000, 14500}

\* C29: with the thresholds and the hard-gate results of the outcome, a
\* score at least as high never gets a worse decision and a score at most as
\* high never a better one (reject < borderline < pass), also when the
\* borderline threshold lies above the pass threshold; no value of
\* thresholds.reject changes the decision.
C29_DecisionMonotoneInScore ==
    Done =>
        /\ \A other \in ScoreGrid :
              /\ other >= Score =>
                    Rank(_decide(thresholds, other, Failures)) >= Rank(Decision)
              /\ other <= Score =>
                    Rank(_decide(thresholds, other, Failures)) <= Rank(Decision)
        /\ \A reject \in ScoreGrid :
              _decide([thresholds EXCEPT !["reject"] = reject], Score, Failures)
                  = Decision

\* C29 witness: an outcome without hard failures decided pass although the
\* score is below both the borderline and the reject threshold
C29_Witness ==
    /\ Done
    /\ Failures = <<>>
    /\ thresholds["pass"] <= Score
    /\ Score < thresholds["borderline"]
    /\ Score < thresholds["reject"]
    /\ Decision = "pass"

-----------------------------------------------------------------------------
(* The SalaryEvaluator and the salary hard gate.                            *)

\* the SalaryEvaluator of the call failed the candidate
SalaryFailed == \E i \in SalaryResults : evaluations[i].scores["salary_pass"] = 0

BothDesiredStated ==
    /\ candidate.desired_salary_min_jpy.t # "None"
    /\ candidate.desired_salary_max_jpy.t # "None"

\* C28: whenever the SalaryEvaluator yields salary_pass = 0.0 the gate
\* salary_ok of the same candidate and job is false and the decision is
\* reject, also when the candidate states only one of the desired minimum
\* and maximum or states them reversed.
C28_EvaluatorFailImpliesGate ==
    (Done /\ SalaryFailed) => (~Flags["salary_ok"] /\ Decision = "reject")

\* C28 as amended: the same, for candidates who state both the desired
\* minimum and the desired maximum, in either order.
C28_EvaluatorFailImpliesGateBothStated ==
    (Done /\ SalaryFailed /\ BothDesiredStated) =>
        (~Flags["salary_ok"] /\ Decision = "reject")

\* C28 witness: a candidate who states the desired values reversed, both
\* below the tolerance-expanded JD range, fails the evaluator and the gate.
C28_Witness ==
    /\ Done
    /\ SalaryFailed
    /\ BothDesiredStated
    /\ candidate.desired_salary_min_jpy.v > candidate.desired_salary_max_jpy.v
    /\ job.constraints.salary_range.v.min_jpy.t # "None"
    /\ candidate.desired_salary_min_jpy.v < job.constraints.salary_range.v.min_jpy.v
    /\ ~Flags["salary_ok"]
    /\ Decision = "reject"

-----------------------------------------------------------------------------
(* Candidate ingestion: the schema of the constraints, the BizReach adapter *)
(* and CandidateLoader.load. A line of the candidates file is blank, text   *)
(* json.loads rejects, or the JSON value json.loads returns; a JSON object  *)
(* is a dict whose absent keys are recorded as Missing.                     *)

s_bizreach == <<"b","i","z","r","e","a","c","h">>

BlankLine == [t |-> "blank"]
MalformedLine == [t |-> "malformed"]
JsonLine(value) == [t |-> "json", v |-> value]

\* the attributes CandidateConstraints declares
CandidateConstraints_fields == {"language", "location", "visa"}

\* mutant of CandidateConstraints: extra="ignore"
CandidateConstraints_validate_ignore(value) ==
    Returned(PyObj([language |-> IF value.v.language.t = "missing" THEN <<>>
                                 ELSE value.v.language.v,
                    location |-> IF value.v.location.t = "missing" THEN <<>>
                                 ELSE value.v.location.v,
                    visa |-> DictGet(value.v, "visa")]))

\* CandidateConstraints.model_validate of a dict: extra="forbid"
CandidateConstraints_validate(value) ==
    IF \E key \in DOMAIN value.v :
           value.v[key].t # "missing" /\ key \notin CandidateConstraints_fields
    THEN Raised("ValidationError: extra_forbidden")
    ELSE Returned(PyObj([language |-> IF value.v.language.t = "missing" THEN <<>>
                                      ELSE value.v.language.v,
                         location |-> IF value.v.location.t = "missing" THEN <<>>
                                      ELSE value.v.location.v,
                         visa |-> DictGet(value.v, "visa")]))

\* the field constraints: CandidateConstraints | None
ConstraintsField(value) ==
    IF value.t \in {"missing", "None"} THEN Returned(None)
    ELSE IF value.t # "dict" THEN Raised("ValidationError: model_type")
    ELSE CandidateConstraints_validate(value)

\* payload.get(key, default)
GetOr(payload, key, default) ==
    IF payload.v[key].t = "missing" THEN default ELSE payload.v[key]

\* the LanguageProficiency objects of payload.get("languages", [])
LanguagesField(value) ==
    IF value.t # "list" THEN Raised("TypeError: not iterable")
    ELSE IF \E i \in 1..Len(value.v) : value.v[i].t # "dict"
    THEN Raised("AttributeError: get")
    ELSE IF \E i \in 1..Len(value.v) : GetOr(value.v[i], "language", PyStr(<<>>)).t # "str"
    THEN Raised("ValidationError: string_type")
    ELSE Returned([i \in 1..Len(value.v) |->
                      [language |-> GetOr(value.v[i], "language", PyStr(<<>>)).v,
                       level |-> DictGet(value.v[i].v, "level")]])

\* the ExperienceEntry objects of payload.get("experiences", [])
ExperiencesField(value) ==
    IF value.t # "list" THEN Raised("TypeError: not iterable")
    ELSE IF \E i \in 1..Len(value.v) : value.v[i].t # "dict"
    THEN Raised("AttributeError: get")
    ELSE IF \E i \in 1..Len(value.v) :
                \/ GetOr(value.v[i], "title", PyStr(<<>>)).t # "str"
                \/ GetOr(value.v[i], "summary", PyStr(<<>>)).t # "str"
                \/ DictGet(value.v[i].v, "start").t \notin {"None", "str"}
                \/ DictGet(value.v[i].v, "end").t \notin {"None", "str"}
                \/ DictGet(value.v[i].v, "employment_type").t \notin {"None", "str"}
                \/ GetOr(value.v[i], "bullets", PyList(<<>>)).t # "list"
    THEN Raised("ValidationError: string_type")
    ELSE Returned([i \in 1..Len(value.v) |->
                      [company |-> GetOr(value.v[i], "company", PyStr(<<>>)).v,
                       title |-> GetOr(value.v[i], "title", PyStr(<<>>)).v,
                       start |-> DictGet(value.v[i].v, "start"),
                       end |-> DictGet(value.v[i].v, "end"),
                       employment_type |-> DictGet(value.v[i].v, "employment_type"),
                       summary |-> GetOr(value.v[i], "summary", PyStr(<<>>)).v,
                       bullets |-> GetOr(value.v[i], "bullets", PyList(<<>>)).v]])

\* a field declared int | None
OptionalInt(value) ==
    IF value.t \in {"missing", "None"} THEN Returned(None)
    ELSE IF value.t = "int" THEN Returned(value)
    ELSE Raised("ValidationError: int_type")

\* CandidateProfile(...) as parse_candidate builds it once the payload is a
\* dict: provider, candidate_id, name, the desired salaries, experiences,
\* skills, languages, education and constraints are taken from the payload;
\* no other attribute of the payload is passed on
ProfileOf(payload, experiences, languages, desired_min, desired_max, constraints) ==
    IF GetOr(payload, "candidate_id", PyStr(<<>>)).t # "str"
    THEN Raised("ValidationError: string_type")
    ELSE IF GetOr(payload, "skills", PyList(<<>>)).t # "list"
    THEN Raised("ValidationError: list_type")
    ELSE IF experiences.raised THEN experiences
    ELSE IF languages.raised THEN languages
    ELSE IF desired_min.raised THEN desired_min
    ELSE IF desired_max.raised THEN desired_max
    ELSE IF constraints.raised THEN constraints
    ELSE Returned([candidate_id |-> GetOr(payload, "candidate_id", PyStr(<<>>)).v,
                   languages |-> languages.value,
                   location |-> None,
                   constraints |-> constraints.value,
                   desired_salary_min_jpy |-> desired_min.value,
                   desired_salary_max_jpy |-> desired_max.value,
                   experiences |-> experiences.value,
                   skills |-> GetOr(payload, "skills", PyList(<<>>)).v,
                   notes |-> None])

\* parse_candidate after `payload = data.get("payload", data)`
ParsePayload(payload) ==
    IF payload.t # "dict" THEN Raised("AttributeError: get")
    ELSE ProfileOf(payload,
                   ExperiencesField(GetOr(payload, "experiences", PyList(<<>>))),
                   LanguagesField(GetOr(payload, "languages", PyList(<<>>))),
                   OptionalInt(payload.v.desired_salary_min_jpy),
                   OptionalInt(payload.v.desired_salary_max_jpy),
                   ConstraintsField(payload.v.constraints))

\* BizReachAdapter.parse_candidate of the JSON text of a value
parse_candidate(data) ==
    IF data.t # "dict" THEN Raised("AttributeError: get")
    ELSE ParsePayload(GetOr(data, "payload", data))

\* AdapterRegistry of default_registry(): the providers with an adapter
default_registry == {s_bizreach}

\* f"line {number}: {text}"
Message(number, text) == <<"line", number, text>>

\* the body of the loop of load for one line, once the provider is read
LoadWithProvider(registry, number, record, provider) ==
    IF ~Truthy(provider)
    THEN [t |-> "error", message |-> Message(number, "missing provider field")]
    ELSE IF provider.t \in {"list", "dict"}
    THEN [t |-> "raise", exc |-> "TypeError: unhashable type"]
    ELSE IF provider.t # "str" \/ provider.v \notin registry
    THEN [t |-> "error", message |-> Message(number, "unsupported provider")]
    ELSE LET parsed == parse_candidate(GetOr(record, "payload", record))
         IN IF parsed.raised
            THEN [t |-> "error", message |-> Message(number, parsed.exc)]
            ELSE [t |-> "candidate", profile |-> parsed.value]

\* the body of the loop of load for the line numbered number
LoadLine(registry, number, line) ==
    IF line.t = "blank" THEN [t |-> "skip"]
    ELSE IF line.t = "malformed"
    THEN [t |-> "error", message |-> Message(number, "invalid JSON")]
    ELSE IF line.v.t # "dict"
    THEN [t |-> "raise", exc |-> "AttributeError: get"]
    ELSE LoadWithProvider(registry, number, line.v, DictGet(line.v.v, "provider"))

-----------------------------------------------------------------------------
(* build_llm_payload.                                                       *)

\* the first evaluation of the method, None when there is none
_find_evaluation(result, method) ==
    IF \E i \in 1..Len(result.evaluations) : result.evaluations[i].method = method
    THEN result.evaluations[CHOOSE i \in 1..Len(result.evaluations) :
             /\ result.evaluations[i].method = method
             /\ \A j \in 1..(i - 1) : result.evaluations[j].method # method]
    ELSE None

\* metadata.get(key, [])[:3]
TopThree(metadata, key) ==
    IF key \in DOMAIN metadata
    THEN SubSeq(metadata[key], 1, IF Len(metadata[key]) < 3 THEN Len(metadata[key]) ELSE 3)
    ELSE <<>>

_extract_bm25_metadata(bm25) ==
    IF bm25 = None THEN EmptyDict
    ELSE [bm25_prox |-> GetOrZero(bm25.scores, "bm25_prox"),
          title_bonus |-> GetOrZero(bm25.scores, "title_bonus"),
          hits_top |-> TopThree(bm25.metadata, "hits")]

_extract_embed_metadata(embed) ==
    IF embed = None THEN EmptyDict
    ELSE [embed_sim |-> GetOrZero(embed.scores, "embed_sim"),
          sim_title |-> GetOrZero(embed.scores, "sim_title"),
          evidence_pairs_top |-> TopThree(embed.metadata, "evidence_pairs")]

build_llm_payload(jd, profile, result) ==
    [job_id |-> jd.job_id,
     candidate_id |-> profile.candidate_id,
     jd |-> [role_titles |-> jd.role_titles,
             requirements_top |->
                 SubSeq(jd.requirements_text, 1,
                        IF Len(jd.requirements_text) < 5
                        THEN Len(jd.requirements_text) ELSE 5),
             constraints |-> jd.constraints],
     candidate_summary |-> [titles |-> CandidateTitles(profile),
                            skills_agg_top |-> <<>>],
     method1_bm25 |-> _extract_bm25_metadata(_find_evaluation(result, "bm25_proximity")),
     method2_embed |-> _extract_embed_metadata(_find_evaluation(result, "embed_similarity")),
     pre_llm_score |-> result.aggregate.pre_llm_score,
     penalties |-> result.decision.hard_gate_flags]

-----------------------------------------------------------------------------
(* ScreeningPipeline.run. The frame of a run holds its arguments, the state *)
(* of CandidateLoader.load, the loop over the candidates and what the run   *)
(* leaves behind: the output document, the audit log, the exception.        *)

\* getattr(obj, name) on an object with the given attributes
GetAttr(obj, name) ==
    IF name \in DOMAIN obj THEN Returned(obj[name])
    ELSE Raised(<<"AttributeError", name>>)

\* the keyword arguments run declares
run_keywords == {"candidates_path", "job_path", "output_path", "as_of", "audit_logger"}

\* a run about to be called: the lines of the candidates file, as_of, the
\* audit logger (None or an AuditLogger) and the keyword arguments besides
Run(lines, as_of, audit_logger, keywords) ==
    [pc |-> "call", lines |-> lines, as_of |-> as_of,
     audit_logger |-> audit_logger, keywords |-> keywords,
     line_no |-> 1, candidates |-> <<>>, errors |-> <<>>, loaded |-> None,
     load_errors |-> <<>>, position |-> 0, serialized_results |-> <<>>,
     output |-> None, raised |-> None]

\* the call binds its arguments: a keyword run does not declare is a
\* TypeError; then the job is loaded and load starts on the first line
RunCalled ==
    /\ pipeline # None
    /\ pipeline.pc = "call"
    /\ pipeline' =
           IF \E key \in DOMAIN pipeline.keywords : key \notin run_keywords
           THEN [pipeline EXCEPT !.pc = "failed",
                                 !.raised = PyName(<<"TypeError", "unexpected keyword">>)]
           ELSE [pipeline EXCEPT !.pc = "loading"]
    /\ UNCHANGED <<candidate, job, context, evaluators, score_weights, thresholds,
                   pc, idx, evaluation_context, evaluations, aggregated_scores,
                   outcome, error, workers>>

\* pipeline.py lines 58-85: one line of the candidates file
LoadNextLine ==
    /\ pipeline # None
    /\ pipeline.pc = "loading"
    /\ pipeline.line_no <= Len(pipeline.lines)
    /\ LET step == LoadLine(default_registry, pipeline.line_no,
                            pipeline.lines[pipeline.line_no])
       IN pipeline' =
              CASE step.t = "skip" ->
                       [pipeline EXCEPT !.line_no = @ + 1]
                [] step.t = "error" ->
                       [pipeline EXCEPT !.line_no = @ + 1,
                                        !.errors = Append(@, step.message)]
                [] step.t = "candidate" ->
                       [pipeline EXCEPT !.line_no = @ + 1,
                                        !.candidates = Append(@, step.profile)]
                [] step.t = "raise" ->
                       [pipeline EXCEPT !.pc = "failed", !.raised = PyName(step.exc)]
    /\ UNCHANGED <<candidate, job, context, evaluators, score_weights, thresholds,
                   pc, idx, evaluation_context, evaluations, aggregated_scores,
                   outcome, error, workers>>

\* pipeline.py lines 86-88 and 144-151: load returns the candidates or
\* raises CandidateLoadError, which run catches to go on with the partial
\* list
LoadEnds ==
    /\ pipeline # None
    /\ pipeline.pc = "loading"
    /\ pipeline.line_no > Len(pipeline.lines)
    /\ pipeline' =
           IF pipeline.errors # <<>>
           THEN [pipeline EXCEPT
                    !.pc = "screening",
                    !.loaded = [raised |-> TRUE, exc |-> "CandidateLoadError",
                                errors |-> pipeline.errors,
                                partial |-> pipeline.candidates],
                    !.load_errors = pipeline.errors,
                    !.position = 1]
           ELSE [pipeline EXCEPT !.pc = "screening",
                                 !.loaded = Returned(pipeline.candidates),
                                 !.position = 1]
    /\ UNCHANGED <<candidate, job, context, evaluators, score_weights, thresholds,
                   pc, idx, evaluation_context, evaluations, aggregated_scores,
                   outcome, error, workers>>

\* pipeline.py lines 153-158: the call of core.evaluate for the next candidate
CallEvaluate ==
    /\ pipeline # None
    /\ pipeline.pc = "screening"
    /\ pipeline.position <= Len(pipeline.candidates)
    /\ pipeline' = [pipeline EXCEPT !.pc = "evaluating"]
    /\ candidate' = pipeline.candidates[pipeline.position]
    /\ context' = IF Truthy(pipeline.as_of)
                  THEN Context(pipeline.as_of, Missing, Missing) ELSE None
    /\ pc' = "start"
    /\ idx' = 0
    /\ evaluation_context' = None
    /\ evaluations' = <<>>
    /\ aggregated_scores' = EmptyDict
    /\ outcome' = None
    /\ error' = None
    /\ UNCHANGED <<job, evaluators, score_weights, thresholds, workers>>

\* evaluate raised: the exception leaves run
EvaluateRaised ==
    /\ pipeline # None
    /\ pipeline.pc = "evaluating"
    /\ pc = "error"
    /\ pipeline' = [pipeline EXCEPT !.pc = "failed", !.raised = error]
    /\ UNCHANGED <<candidate, job, context, evaluators, score_weights, thresholds,
                   pc, idx, evaluation_context, evaluations, aggregated_scores,
                   outcome, error, workers>>

\* an AuditLogger and the records appended to its file
AuditLogger(records) == PyObj([records |-> records])

\* the record run appends to the audit log
AuditRecord(profile, jd, result, hard_gate_details, llm_payload) ==
    [candidate_id |-> profile.candidate_id, job_id |-> jd.job_id,
     pre_llm_score |-> result.aggregate.pre_llm_score,
     decision |-> result.decision.decision,
     hard_gate_flags |-> result.decision.hard_gate_flags,
     hard_gate_details |-> hard_gate_details,
     llm_payload |-> llm_payload]

\* pipeline.py lines 159-190 once the attribute read at lines 177 and 189 is
\* evaluated: the entry is appended to the results, then the read raises or
\* the audit record is appended and the loop goes on
RecordWith(frame, entry, llm_payload, hard_gate_details) ==
    IF hard_gate_details.raised
    THEN [frame EXCEPT !.pc = "failed",
                       !.serialized_results = Append(@, entry),
                       !.raised = PyName(hard_gate_details.exc)]
    ELSE [frame EXCEPT
             !.pc = "screening",
             !.position = @ + 1,
             !.serialized_results = Append(@, entry),
             !.audit_logger =
                 IF ~Truthy(frame.audit_logger) THEN frame.audit_logger
                 ELSE AuditLogger(Append(frame.audit_logger.v.records,
                                         AuditRecord(candidate, job, outcome.v,
                                                     hard_gate_details.value,
                                                     llm_payload)))]

\* asdict(outcome) with the llm_payload under "llm_payload"
SerializedEntry(result, llm_payload) ==
    [candidate_id |-> result.candidate_id, job_id |-> result.job_id,
     evaluations |-> result.evaluations, aggregate |-> result.aggregate,
     decision |-> result.decision, llm_payload |-> llm_payload]

\* pipeline.py lines 159-190: evaluate returned an outcome
RecordResult ==
    /\ pipeline # None
    /\ pipeline.pc = "evaluating"
    /\ pc = "done"
    /\ pipeline' =
           RecordWith(pipeline,
                      SerializedEntry(outcome.v, build_llm_payload(job, candidate, outcome.v)),
                      build_llm_payload(job, candidate, outcome.v),
                      GetAttr(outcome.v.decision, "hard_gate_details"))
    /\ UNCHANGED <<candidate, job, context, evaluators, score_weights, thresholds,
                   pc, idx, evaluation_context, evaluations, aggregated_scores,
                   outcome, error, workers>>

\* pipeline.py lines 192-205: the output document (timestamp and
\* app_version left out) is written and the results are returned
WriteOutput ==
    /\ pipeline # None
    /\ pipeline.pc = "screening"
    /\ pipeline.position > Len(pipeline.candidates)
    /\ pipeline' =
           [pipeline EXCEPT
               !.pc = "written",
               !.output = PyObj([metadata |->
                                     [job_id |-> job.job_id,
                                      candidate_count |-> Len(pipeline.candidates),
                                      errors |-> pipeline.load_errors],
                                 results |-> pipeline.serialized_results])]
    /\ UNCHANGED <<candidate, job, context, evaluators, score_weights, thresholds,
                   pc, idx, evaluation_context, evaluations, aggregated_scores,
                   outcome, error, workers>>

NextPipeline ==
    \/ RunCalled \/ LoadNextLine \/ LoadEnds \/ CallEvaluate
    \/ Begin \/ EvaluatorReturns \/ EvaluatorRaises \/ Return
    \/ EvaluateRaised \/ RecordResult \/ WriteOutput

-----------------------------------------------------------------------------
(* Inputs that exercise the pipeline: candidates files of up to MaxLines    *)
(* lines, a job with and without a required location, the evaluators of the *)
(* container.                                                               *)

MaxLines == 2

RecordKeys ==
    {"provider", "payload", "candidate_id", "location", "constraints", "languages",
     "desired_salary_min_jpy", "desired_salary_max_jpy", "experiences", "skills"}

\* a JSON object of a candidates file
JsonObject(f) == PyDict([k \in RecordKeys |-> IF k \in DOMAIN f THEN f[k] ELSE Missing])

ConstraintKeys == {"language", "location", "visa", "can_relocate", "remote_ok", "notes"}

\* a JSON object under "constraints"
ConstraintsObject(f) ==
    PyDict([k \in ConstraintKeys |-> IF k \in DOMAIN f THEN f[k] ELSE Missing])

s_c1 == <<"c","1">>
s_c2 == <<"c","2">>
s_c3 == <<"c","3">>
s_c4 == <<"c","4">>
s_Tokyo_padded == <<" ","T","o","k","y","o"," ">>

\* {"provider": "bizreach", "candidate_id": "c1", "location": " Tokyo ", ...}
InlineInTokyo ==
    JsonObject([provider |-> PyStr(s_bizreach), candidate_id |-> PyStr(s_c1),
                location |-> PyStr(s_Tokyo_padded),
                desired_salary_min_jpy |-> PyInt(1)])

\* the payload under "payload", constraints within the declared attributes
NestedInOsaka ==
    JsonObject([provider |-> PyStr(s_bizreach),
                payload |-> JsonObject(
                    [candidate_id |-> PyStr(s_c2), location |-> PyStr(s_osaka),
                     constraints |-> ConstraintsObject(
                         [location |-> PyList(<<s_tokyo>>), visa |-> PyStr(s_work)])])])

\* a record as the markdown converter writes it
WithCanRelocate ==
    JsonObject([provider |-> PyStr(s_bizreach), candidate_id |-> PyStr(s_c3),
                location |-> PyStr(s_tokyo),
                constraints |-> ConstraintsObject(
                    [location |-> PyList(<<s_tokyo>>),
                     can_relocate |-> [t |-> "bool", v |-> TRUE]])])

WithRemoteOk ==
    [WithCanRelocate EXCEPT
        !.v.constraints = ConstraintsObject([remote_ok |-> [t |-> "bool", v |-> FALSE]])]

\* a constraints object with an attribute the documentation does not list
WithUnknownConstraint ==
    [WithCanRelocate EXCEPT
        !.v.constraints = ConstraintsObject([notes |-> PyStr(s_pr)])]

\* no location in the payload
NoLocation ==
    JsonObject([provider |-> PyStr(s_bizreach), candidate_id |-> PyStr(s_c4)])

LinePool ==
    { BlankLine, MalformedLine,
      JsonLine(PyList(<<>>)),
      JsonLine(JsonObject([candidate_id |-> PyStr(s_c1)])),
      JsonLine(JsonObject([provider |-> PyStr(s_unknown)])),
      JsonLine(JsonObject([provider |-> PyList(<<s_bizreach>>)])),
      JsonLine(JsonObject([provider |-> PyStr(s_bizreach), payload |-> PyStr(s_c1)])),
      JsonLine(InlineInTokyo), JsonLine(NestedInOsaka), JsonLine(WithCanRelocate),
      JsonLine(WithRemoteOk), JsonLine(WithUnknownConstraint), JsonLine(NoLocation) }

JobInTokyo == Job(<<>>, <<s_tokyo>>, None, None)

\* container.py: bm25, embed, tenure, salary, jd_matcher
ContainerEvaluators ==
    <<DefaultBM25, DefaultEmbed,
      TenureEvaluator(TenureConfig(TenureConfig_recent_window), Now),
      SalaryEvaluator, JDMatcher>>

\* the client of tests/integration/test_pipeline_audit_llm.py
DummyLLMClient == PyObj([calls |-> <<>>, response |-> PyStr(s_pr)])

InitRun(frame, jd, evs) ==
    /\ pipeline = frame
    /\ candidate = None
    /\ job = jd
    /\ context = None
    /\ evaluators = evs
    /\ score_weights = init_score_weights(None)
    /\ thresholds = init_thresholds(None)
    /\ pc = "idle"
    /\ idx = 0
    /\ evaluation_context = None
    /\ evaluations = <<>>
    /\ aggregated_scores = EmptyDict
    /\ outcome = None
    /\ error = None
    /\ workers = None

InitPipeline ==
    \/ \E lines \in SeqsUpTo(MaxLines, LinePool), jd \in {NoRequirements, JobInTokyo},
          audit_logger \in {None, AuditLogger(<<>>)} :
           InitRun(Run(lines, None, audit_logger, EmptyDict), jd, ContainerEvaluators)
    \/ \E lines \in {<<>>, <<JsonLine(InlineInTokyo), JsonLine(NoLocation)>>},
          as_of \in {None, PyStr(s_2024_12)},
          keywords \in {EmptyDict, [llm_client |-> DummyLLMClient]},
          evs \in {<<>>, <<SalaryEvaluator, BadStub>>} :
           InitRun(Run(lines, as_of, None, keywords), JobInTokyo, evs)

SpecPipeline == InitPipeline /\ [][NextPipeline]_vars

-----------------------------------------------------------------------------
(* Properties of CandidateLoader.load.                                      *)

\* the numbers of the non-blank lines, in file order
NonBlank(lines) == SelectSeq([i \in 1..Len(lines) |-> i], LAMBDA i : lines[i].t # "blank")

\* the line is a record the adapter of its provider parses
Loadable(line) ==
    /\ line.t = "json"
    /\ line.v.t = "dict"
    /\ Truthy(DictGet(line.v.v, "provider"))
    /\ DictGet(line.v.v, "provider").t = "str"
    /\ DictGet(line.v.v, "provider").v \in default_registry
    /\ ~parse_candidate(GetOr(line.v, "payload", line.v)).raised

ValidLines(lines) == SelectSeq(NonBlank(lines), LAMBDA i : Loadable(lines[i]))
InvalidLines(lines) == SelectSeq(NonBlank(lines), LAMBDA i : ~Loadable(lines[i]))

\* the profiles of the valid lines, in file order
ProfilesOf(lines) ==
    [k \in 1..Len(ValidLines(lines)) |->
        parse_candidate(GetOr(lines[ValidLines(lines)[k]].v, "payload",
                              lines[ValidLines(lines)[k]].v)).value]

\* load was called and is over
LoadOver ==
    /\ pipeline.pc \notin {"call", "loading"}
    /\ DOMAIN pipeline.keywords \subseteq run_keywords

\* what the contract of load asks of its outcome
LoadOutcomeAsDocumented(lines, loaded) ==
    IF InvalidLines(lines) = <<>>
    THEN loaded = Returned(ProfilesOf(lines))
    ELSE /\ loaded.raised
         /\ loaded.exc = "CandidateLoadError"
         /\ Len(loaded.errors) = Len(InvalidLines(lines))
         /\ \A k \in 1..Len(loaded.errors) :
                loaded.errors[k][2] = InvalidLines(lines)[k]
         /\ loaded.partial = ProfilesOf(lines)

\* C22: load handles every non-blank line on its own: with valid lines only
\* it returns the candidates in file order; otherwise it goes on and raises
\* CandidateLoadError whose errors hold one message per failing line, in
\* file order with the line's number, and whose partial holds the parsed
\* candidates in file order.
C22_LoadCollectsPerLine ==
    LoadOver =>
        /\ pipeline.loaded # None
        /\ LoadOutcomeAsDocumented(pipeline.lines, pipeline.loaded)

\* the part of C22 the code keeps: whenever load ends with a list or with
\* CandidateLoadError the outcome is the documented one
C22_OutcomeWhenLoadEnds ==
    (LoadOver /\ pipeline.loaded # None) =>
        LoadOutcomeAsDocumented(pipeline.lines, pipeline.loaded)

\* a file whose second line is the JSON array []: load leaves with
\* AttributeError after the first line was parsed
C22_NonObjectLineAborts ==
    /\ LoadOver
    /\ pipeline.loaded = None
    /\ pipeline.raised = PyName("AttributeError: get")
    /\ Len(pipeline.candidates) = 1

-----------------------------------------------------------------------------
(* Properties of ScreeningPipeline.run.                                     *)

\* load ended with a list or with CandidateLoadError and the core is the
\* container's
RunLoaded ==
    /\ LoadOver
    /\ pipeline.loaded # None
    /\ evaluators = ContainerEvaluators

\* C23: a run over a file with at least one loadable candidate ends
\* successfully, with or without an audit logger, and writes a document
\* whose results hold one outcome per loaded candidate in input order,
\* whose candidate_count is the number of results and whose errors are the
\* load errors of the skipped lines.
C23_RunWritesOneOutcomePerCandidate ==
    (RunLoaded /\ Len(pipeline.candidates) >= 1) =>
        /\ pipeline.pc # "failed"
        /\ pipeline.pc = "written" =>
              /\ Len(pipeline.output.v.results) = Len(pipeline.candidates)
              /\ \A k \in 1..Len(pipeline.candidates) :
                     pipeline.output.v.results[k].candidate_id
                         = pipeline.candidates[k].candidate_id
              /\ pipeline.output.v.metadata.candidate_count
                     = Len(pipeline.output.v.results)
              /\ pipeline.output.v.metadata.errors = pipeline.errors

\* the run of C23 that fails: the first candidate was evaluated and its
\* entry appended, then run raised AttributeError and wrote nothing
C23_FirstCandidateRaises ==
    /\ RunLoaded
    /\ pipeline.pc = "failed"
    /\ pipeline.raised = PyName(<<"AttributeError", "hard_gate_details">>)
    /\ Len(pipeline.serialized_results) = 1
    /\ Len(pipeline.candidates) = 2
    /\ pipeline.output = None

\* what run keeps of C23: no document is written unless every loaded
\* candidate has its entry, and a run that loads no candidate writes the
\* document with the load errors
C23_DocumentOnlyWhenComplete ==
    /\ (RunLoaded /\ pipeline.output # None) =>
          /\ Len(pipeline.output.v.results) = Len(pipeline.candidates)
          /\ pipeline.output.v.metadata.candidate_count = Len(pipeline.candidates)
          /\ pipeline.output.v.metadata.errors = pipeline.errors
    /\ (RunLoaded /\ pipeline.candidates = <<>> /\ pipeline.pc \notin {"screening"}) =>
          pipeline.pc = "written"

-----------------------------------------------------------------------------
(* The reranker client.                                                     *)

\* run was called with a reranker client
ClientSupplied == pipeline.pc # "call" /\ "llm_client" \in DOMAIN pipeline.keywords

\* C24: when a reranker client is supplied to run it is called once per
\* candidate with the candidate's payload and its response is attached to
\* the candidate's result as llm_response; no error propagates from it.
C24_ResponseAttachedPerCandidate ==
    ClientSupplied =>
        /\ pipeline.raised # PyName(<<"TypeError", "unexpected keyword">>)
        /\ \A k \in 1..Len(pipeline.serialized_results) :
               /\ "llm_response" \in DOMAIN pipeline.serialized_results[k]
               /\ pipeline.serialized_results[k].llm_response
                      = pipeline.keywords.llm_client.v.response

\* the run of C24 that fails: the call with a client raises TypeError
\* before anything is loaded
C24_ClientRejected ==
    /\ ClientSupplied
    /\ pipeline.pc = "failed"
    /\ pipeline.raised = PyName(<<"TypeError", "unexpected keyword">>)
    /\ pipeline.lines # <<>>
    /\ pipeline.line_no = 1
    /\ pipeline.keywords.llm_client.v.calls = <<>>

\* no run ever calls a client or attaches a response
C24_NoResponseAnywhere ==
    /\ \A k \in 1..Len(pipeline.serialized_results) :
           "llm_response" \notin DOMAIN pipeline.serialized_results[k]
    /\ ClientSupplied => pipeline.pc = "failed"

-----------------------------------------------------------------------------
(* Schema validation of the candidate constraints.                          *)

\* the attributes of a constraints object the documentation lists
DocumentedConstraints == {"language", "location", "visa", "can_relocate", "remote_ok"}

\* the payload the adapter reads of a record
PayloadOf(record) ==
    GetOr(GetOr(record, "payload", record), "payload", GetOr(record, "payload", record))

\* a bizreach record whose payload has a constraints object
CarriesConstraints(line) ==
    /\ line.t = "json"
    /\ line.v.t = "dict"
    /\ DictGet(line.v.v, "provider") = PyStr(s_bizreach)
    /\ GetOr(line.v, "payload", line.v).t = "dict"
    /\ PayloadOf(line.v).v.constraints.t = "dict"

\* the attributes the constraints object of the line carries
ConstraintsCarried(line) ==
    { key \in DOMAIN PayloadOf(line.v).v.constraints.v :
          PayloadOf(line.v).v.constraints.v[key].t # "missing" }

\* the lines load has dealt with
LinesDone == 1..(pipeline.line_no - 1)

\* load reported the line
Rejected(i) == \E k \in 1..Len(pipeline.errors) : pipeline.errors[k][2] = i

\* C27: a candidate whose constraints object carries any subset of
\* language, location, visa, can_relocate and remote_ok is accepted; one
\* with any other attribute is rejected with a validation error.
C27_DocumentedConstraintsAccepted ==
    \A i \in LinesDone :
        CarriesConstraints(pipeline.lines[i]) =>
            (Rejected(i) <=>
                 ~(ConstraintsCarried(pipeline.lines[i]) \subseteq DocumentedConstraints))

\* what the schema does: exactly the objects within language, location and
\* visa are accepted
C27_DeclaredConstraintsAccepted ==
    \A i \in LinesDone :
        CarriesConstraints(pipeline.lines[i]) =>
            (Rejected(i) <=>
                 ~(ConstraintsCarried(pipeline.lines[i]) \subseteq CandidateConstraints_fields))

\* a record with can_relocate, as the markdown converter writes it, is
\* reported with a validation error and the next line is loaded
C27_CanRelocateRejected ==
    /\ pipeline.line_no = 3
    /\ CarriesConstraints(pipeline.lines[1])
    /\ "can_relocate" \in ConstraintsCarried(pipeline.lines[1])
    /\ pipeline.errors = <<Message(1, "ValidationError: extra_forbidden")>>
    /\ Len(pipeline.candidates) = 1

-----------------------------------------------------------------------------
(* The location of a loaded candidate.                                      *)

\* evaluate returned the outcome of the candidate run is at
Screened == pipeline.pc = "evaluating" /\ pc = "done"

\* the payload of the line the current candidate was loaded from
CurrentPayload ==
    PayloadOf(pipeline.lines[ValidLines(pipeline.lines)[pipeline.position]].v)

\* C30: the location gate of a candidate loaded through the bizreach
\* adapter is the gate computed on the location of its payload; a payload
\* location equal, after trim and lowercase, to a required location gives
\* location_ok = true.
C30_LocationSurvivesIngestion ==
    Screened =>
        Flags["location_ok"]
            = _location_ok([location |-> DictGet(CurrentPayload.v, "location")],
                           job.constraints.location)

\* what the adapter does: every loaded profile is without location, so the
\* gate holds only for a job without required locations
C30_LocationDropped ==
    Screened =>
        /\ candidate.location = None
        /\ Flags["location_ok"] = (job.constraints.location = <<>>)

\* a candidate in " Tokyo " screened for a job in tokyo fails the location
\* gate and is rejected
C30_TokyoCandidateRejected ==
    /\ Screened
    /\ DictGet(CurrentPayload.v, "location") = PyStr(s_Tokyo_padded)
    /\ job.constraints.location = <<s_tokyo>>
    /\ ~Flags["location_ok"]
    /\ Decision = "reject"

-----------------------------------------------------------------------------
(* Parallel workers over one ScreeningCore. The core, its evaluators, the   *)
(* job and the context are shared; every call of evaluate has its own       *)
(* locals. A worker takes the next candidate of the queue, runs evaluate    *)
(* one evaluator call at a time and records the result. The clock the       *)
(* TenureEvaluator reads differs from call to call.                         *)

MaxQueued == 2

\* the workers of the host
WorkerIds == {"w1", "w2"}

\* lines 92-95 of evaluate: the evaluator context of a call
EvaluationContext(jd, ctx) ==
    [job |-> jd,
     as_of |-> IF Truthy(ctx) THEN ctx.v.as_of ELSE Missing,
     evaluation_overrides |->
         IF Truthy(ctx) THEN ctx.v.evaluation_overrides ELSE Missing,
     jd_keywords |-> IF Truthy(ctx) THEN ctx.v.jd_keywords ELSE Missing]

\* lines 107-134 of evaluate: the outcome of the collected evaluations
OutcomeOf(cand, jd, evals, agg) ==
    PyObj([candidate_id |-> cand.candidate_id,
           job_id |-> jd.job_id,
           evaluations |-> evals,
           aggregate |-> [scores |-> agg,
                          pre_llm_score |-> _compute_weighted_score(score_weights, agg)],
           decision |->
               [decision |->
                    _decide(thresholds, _compute_weighted_score(score_weights, agg),
                            hard_failures_of(_evaluate_hard_gates(cand, jd))),
                pre_llm_score |-> _compute_weighted_score(score_weights, agg),
                hard_gate_flags |-> _evaluate_hard_gates(cand, jd),
                hard_failures |-> hard_failures_of(_evaluate_hard_gates(cand, jd))]])

\* the locals of a call of evaluate
Locals(evals, agg) == [evaluations |-> evals, aggregated_scores |-> agg]

\* lines 100-105 of evaluate, from the evaluator list evs and the locals on
RECURSIVE RunEvaluators(_, _, _, _)
RunEvaluators(evs, cand, ectx, locals) ==
    IF evs = <<>> THEN Returned(locals)
    ELSE LET normalized ==
                 _normalize_evaluation_result(evaluator_evaluate(Head(evs), cand, ectx))
         IN IF normalized.raised THEN normalized
            ELSE RunEvaluators(Tail(evs), cand, ectx,
                     Locals(Append(locals.evaluations, normalized.value),
                            Accumulate(locals.aggregated_scores,
                                       normalized.value.scores)))

\* ScreeningCore.evaluate of one candidate, alone
ScreeningCore_evaluate(cand, jd, ctx) ==
    LET run == RunEvaluators(evaluators, cand, EvaluationContext(jd, ctx),
                             Locals(<<>>, EmptyDict))
    IN IF run.raised THEN run
       ELSE Returned(OutcomeOf(cand, jd, run.value.evaluations,
                               run.value.aggregated_scores))

\* what pendulum.now returns at one call or another
Clocks == {Now, DateTime(2026, 3, 1)}

\* the readings a call of the evaluator may get: only the TenureEvaluator
\* reads the clock
ClocksOf(evaluator) == IF evaluator.kind = "tenure" THEN Clocks ELSE {Now}

\* the evaluator as a call sees it: pendulum.now is read at the call
AtClock(evaluator, now) ==
    IF evaluator.kind = "tenure" THEN [evaluator EXCEPT !.now_provider = now]
    ELSE evaluator

\* mutant of LocalsOf: the lists of evaluate are attributes of the core
LocalsOf_shared(w) == "w1"

\* the locals a worker's call of evaluate works on: its own
LocalsOf(w) == w

Idle == [pc |-> "idle", candidate |-> None, idx |-> 0, evaluation_context |-> None]

\* the workers of a host: the queue of candidates, the call each worker is
\* in, the locals of the calls and the results recorded so far
Workers(queue, ids) ==
    [queue |-> queue,
     calls |-> [w \in ids |-> Idle],
     locals |-> [w \in ids |-> Locals(<<>>, EmptyDict)],
     results |-> <<>>]

\* the workers in a call of evaluate besides w
Others(w) == {v \in DOMAIN workers.calls \ {w} : workers.calls[v].pc = "loop"}

\* a result as the host records it, with the workers that were in a call
\* at that time
Result(w, result) ==
    [candidate |-> workers.calls[w].candidate, result |-> result, beside |-> Others(w)]

\* a worker takes the next candidate and enters evaluate: lines 92-98
WorkerBegins(w) ==
    /\ w \in DOMAIN workers.calls
    /\ workers.calls[w].pc = "idle"
    /\ workers.queue # <<>>
    /\ workers' =
           [workers EXCEPT
               !.queue = Tail(@),
               !.calls[w] = [pc |-> "loop", candidate |-> Head(workers.queue),
                             idx |-> 1,
                             evaluation_context |-> EvaluationContext(job, context)],
               !.locals[LocalsOf(w)] = Locals(<<>>, EmptyDict)]
    /\ UNCHANGED <<candidate, job, context, evaluators, score_weights, thresholds,
                   pc, idx, evaluation_context, evaluations, aggregated_scores,
                   outcome, error, pipeline>>

\* lines 100-105 with the result of the evaluator at hand
WorkerAfterEvaluator(w, normalized) ==
    IF normalized.raised
    THEN [workers EXCEPT
             !.calls[w] = Idle,
             !.results = Append(@, Result(w, normalized))]
    ELSE [workers EXCEPT
             !.calls[w].idx = @ + 1,
             !.locals[LocalsOf(w)] =
                 Locals(Append(@.evaluations, normalized.value),
                        Accumulate(@.aggregated_scores, normalized.value.scores))]

\* lines 100-105: the worker's call runs its next evaluator
WorkerCallsEvaluator(w) ==
    /\ w \in DOMAIN workers.calls
    /\ workers.calls[w].pc = "loop"
    /\ workers.calls[w].idx <= Len(evaluators)
    /\ \E now \in ClocksOf(evaluators[workers.calls[w].idx]) :
           workers' =
               WorkerAfterEvaluator(w,
                   _normalize_evaluation_result(
                       evaluator_evaluate(AtClock(evaluators[workers.calls[w].idx], now),
                                          workers.calls[w].candidate,
                                          workers.calls[w].evaluation_context)))
    /\ UNCHANGED <<candidate, job, context, evaluators, score_weights, thresholds,
                   pc, idx, evaluation_context, evaluations, aggregated_scores,
                   outcome, error, pipeline>>

\* lines 107-134: the worker's call returns and the result is recorded
WorkerReturns(w) ==
    /\ w \in DOMAIN workers.calls
    /\ workers.calls[w].pc = "loop"
    /\ workers.calls[w].idx > Len(evaluators)
    /\ workers' =
           [workers EXCEPT
               !.calls[w] = Idle,
               !.results =
                   Append(@, Result(w,
                       Returned(OutcomeOf(
                           workers.calls[w].candidate, job,
                           workers.locals[LocalsOf(w)].evaluations,
                           workers.locals[LocalsOf(w)].aggregated_scores))))]
    /\ UNCHANGED <<candidate, job, context, evaluators, score_weights, thresholds,
                   pc, idx, evaluation_context, evaluations, aggregated_scores,
                   outcome, error, pipeline>>

NextWorkers ==
    \E w \in WorkerIds :
        WorkerBegins(w) \/ WorkerCallsEvaluator(w) \/ WorkerReturns(w)

-----------------------------------------------------------------------------
(* Inputs that exercise the workers: distinct candidates with different     *)
(* scores and gates, one shared job, a fixed as_of.                         *)

WorkerJob ==
    [Job(<<s_ja>>, <<s_tokyo>>, None, SalaryRange(PyInt(1), PyInt(3)))
        EXCEPT !.requirements_text = <<t_aws_iac>>, !.role_titles = <<s_sre>>]

WorkerCandidate(id, languages, location, desired, experiences) ==
    [Candidate(languages, location, None, desired, desired)
        EXCEPT !.candidate_id = id, !.experiences = experiences]

WorkerCandidates ==
    { WorkerCandidate("W-1", <<Lang(s_ja)>>, PyStr(s_tokyo), PyInt(2),
                      <<Tenure("A", PyStr(s_2022_01), PyStr(s_2023_03), None)>>),
      WorkerCandidate("W-2", <<>>, None, None,
                      <<Tenure("C", PyStr(s_2024_02), PyStr(s_2024_08), PyStr(s_contractor)),
                        Tenure("D", PyStr(s_2024_08), None, None)>>),
      WorkerCandidate("W-3", <<Lang(s_ja)>>, PyStr(s_tokyo), PyInt(1),
                      <<Resume(s_sre, t_aws_iac, <<t_aws_iac>>)>>),
      WorkerCandidate("W-4", <<Lang(s_en)>>, PyStr(s_tokyo), PyInt(5), <<>>) }

\* the queues of distinct candidates
Queues ==
    { queue \in SeqsUpTo(MaxQueued, WorkerCandidates) :
          \A i, j \in 1..Len(queue) : i # j => queue[i] # queue[j] }

InitShared(host, jd, ctx, evs) ==
    /\ workers = host
    /\ job = jd
    /\ context = ctx
    /\ evaluators = evs
    /\ score_weights = init_score_weights(None)
    /\ thresholds = init_thresholds(None)
    /\ candidate = None
    /\ pc = "idle"
    /\ idx = 0
    /\ evaluation_context = None
    /\ evaluations = <<>>
    /\ aggregated_scores = EmptyDict
    /\ outcome = None
    /\ error = None
    /\ pipeline = None

InitWorkers ==
    \/ \E queue \in Queues :
           InitShared(Workers(queue, WorkerIds), WorkerJob,
                      Context(PyStr(s_2024_12), Missing, Missing), ContainerEvaluators)
    \/ \E queue \in {q \in Queues : Len(q) = 1}, ids \in {{"w1"}, WorkerIds} :
           InitShared(Workers(queue, ids), WorkerJob,
                      Context(DateTime(2024, 10, 1), Missing, Missing),
                      ContainerEvaluators)
    \/ \E queue \in {q \in Queues : Len(q) = 1} :
           InitShared(Workers(queue, WorkerIds), WorkerJob,
                      Context(PyStr(s_2024_12), Missing, Missing),
                      <<SalaryEvaluator, BadStub>>)

SpecWorkers == InitWorkers /\ [][NextWorkers]_vars

-----------------------------------------------------------------------------
(* Properties of the workers.                                               *)

\* C26: the core keeps no state across candidates: with the built-in
\* evaluators, a shared job and a fixed as_of, every interleaving of
\* evaluate calls over distinct candidates gives each candidate the outcome
\* of evaluating it alone.
C26_OutcomeAsEvaluatedAlone ==
    \A k \in 1..Len(workers.results) :
        workers.results[k].result
            = ScreeningCore_evaluate(workers.results[k].candidate, job, context)

\* C26 witness: two candidates went through two workers; the first
\* outcome was returned while the other worker was in a call, and the
\* outcomes differ in score and in decision.
C26_Witness ==
    /\ Len(workers.results) = 2
    /\ DOMAIN workers.calls = WorkerIds
    /\ evaluators = ContainerEvaluators
    /\ workers.results[1].beside # {}
    /\ workers.results[1].result.value.v.aggregate.pre_llm_score
           # workers.results[2].result.value.v.aggregate.pre_llm_score
    /\ \E k \in 1..2 : workers.results[k].result.value.v.decision.decision # "reject"
    /\ \E k \in 1..2 : workers.results[k].result.value.v.decision.decision = "reject"

====
